---- MODULE Spec2Model ----
(***************************************************************************)
(* Model of the rate-limit service: RateLimitService.checkRateLimit and    *)
(* resetRateLimit over the DynamoDB usage table (pk = serviceId#clientId,  *)
(* sk = timestamp as a string) and the configuration table.                *)
(*                                                                         *)
(* Every `await` on the store is a point where other calls may run, so an  *)
(* evaluation is a sequence of steps: Call (validate), ResolveConfig       *)
(* (config read, `now` taken), DbQuery (the store runs the range query),   *)
(* AfterQuery (decision; recordUsage takes its own Date.now()), DbPut (the *)
(* store runs the put and the response is returned).  `response` holds the   *)
(* outcome of the call that returned last.                                 *)
(* The store is modelled strongly consistent; the clock is Date.now(), a   *)
(* non-decreasing millisecond counter shared by all calls.                 *)
(*                                                                         *)
(* ConfigService (save, update, createDefault, delete, the reads) works on *)
(* the configuration table, one step per operation.  Request and config    *)
(* fields are JavaScript values, and a lookup on a plain object sees the   *)
(* members inherited from Object.prototype.  Calls of the store may        *)
(* reject; the fail-open helpers catch the rejection.                      *)
(*                                                                         *)
(* getUsageStats reads like an evaluation and writes nothing;              *)
(* checkMultipleRateLimits runs its entries side by side under Promise.all. *)
(* The usage table deletes items past their ttl (SpecRetention), and the   *)
(* sort-key comparison is studied around a power of ten (SpecWindow).      *)
(***************************************************************************)
EXTENDS Integers, Sequences, FiniteSets, Bags

(***************************************************************************)
(* Bounds of the model.                                                    *)
(***************************************************************************)
NProcs == 2
MaxCalls == 3
MaxTicks == 1
MaxResets == 1
Epoch == 1000001000

Procs == 1..NProcs

(***************************************************************************)
(* Program constants.                                                      *)
(***************************************************************************)
MsPerSecond == 1000
TtlSeconds == 24 * 60 * 60

\* Clock advances the model takes: one millisecond and one second
TickSteps == {1, 1000}

Undefined == {}

(***************************************************************************)
(* Strings of digits.  A character is its code point relative to "0", so   *)
(* "-" (45) is -3 and the digits are 0..9; comparison is by code point,    *)
(* as DynamoDB compares string sort keys.                                  *)
(***************************************************************************)
MinusChar == -3

RECURSIVE NatToString(_)
NatToString(n) ==
  IF n < 10 THEN <<n>> ELSE NatToString(n \div 10) \o <<n % 10>>

\* Number.prototype.toString() of an integer
toString(n) ==
  IF n < 0 THEN <<MinusChar>> \o NatToString(-n) ELSE NatToString(n)

RECURSIVE StrLess(_, _)
StrLess(a, b) ==
  IF a = <<>> THEN b # <<>>
  ELSE IF b = <<>> THEN FALSE
  ELSE IF Head(a) # Head(b) THEN Head(a) < Head(b)
  ELSE StrLess(Tail(a), Tail(b))

StrGeq(a, b) == ~StrLess(a, b)

\* Mutation of CeilDiv: Math.floor in place of Math.ceil
CeilDivFloored(x, d) == x \div d

\* Math.ceil(x / d) for integers x and d > 0
CeilDiv(x, d) == -((-x) \div d)

\* Math.floor(x / d)
FloorDiv(x, d) == x \div d

Max(a, b) == IF a >= b THEN a ELSE b

(***************************************************************************)
(* Configuration: compiled defaults and the persisted table.               *)
(***************************************************************************)
Rule(w, m) == [windowMs |-> w, maxRequests |-> m]

DEFAULT_RATE_LIMITS ==
  [s \in {"upload-images", "api-general", "auth"} |->
     CASE s = "upload-images" ->
            [t \in {"default", "pro", "enterprise"} |->
               CASE t = "default" -> Rule(7200000, 5)
                 [] t = "pro" -> Rule(3600000, 10)
                 [] t = "enterprise" -> Rule(1800000, 20)]
       [] s = "api-general" ->
            [t \in {"default", "pro", "enterprise"} |->
               CASE t = "default" -> Rule(3600000, 3)
                 [] t = "pro" -> Rule(3600000, 10)
                 [] t = "enterprise" -> Rule(3600000, 50)]
       [] s = "auth" ->
            [t \in {"default", "pro", "enterprise"} |->
               CASE t = "default" -> Rule(900000, 5)
                 [] t = "pro" -> Rule(900000, 10)
                 [] t = "enterprise" -> Rule(900000, 20)]]

\* Contents of the RateLimitConfig table the service may be started on
\* (seeded through the table itself): serviceId -> rules.
SeededConfigTables ==
  { [s \in {"svc"} |->
       [t \in {"default", "free"} |->
          IF t = "default" THEN Rule(1000, 2) ELSE Rule(1000, 0)]] }

NoError == ""

\* The error a failed call of the store rejects with
StoreError == "StoreError"

(***************************************************************************)
(* JavaScript values of the request and configuration fields: a string, a  *)
(* number, or undefined (a missing field).                                 *)
(***************************************************************************)
JsString(s) == [type |-> "string", str |-> s, num |-> 0]
JsNumber(n) == [type |-> "number", str |-> "", num |-> n]
JsUndefined == [type |-> "undefined", str |-> "", num |-> 0]

\* ToBoolean: "", 0 and undefined are falsy
Truthy(v) ==
  CASE v.type = "string" -> v.str # ""
    [] v.type = "number" -> v.num # 0
    [] OTHER -> FALSE

\* Names every plain object inherits from Object.prototype (a sample of
\* them: constructor, toString, valueOf, hasOwnProperty, __proto__, ...)
ObjectPrototypeKeys == {"constructor", "toString"}

\* obj[key] on a plain object: an own property, a member inherited from
\* Object.prototype (a truthy value with no rule fields), or undefined
PropertyKind(obj, key) ==
  IF key \in DOMAIN obj THEN "own"
  ELSE IF key \in ObjectPrototypeKeys THEN "inherited"
  ELSE "undefined"

\* An object without own rule properties
NoRules == [t \in {} |-> Rule(0, 0)]

\* DynamoDBService.getConfig: the persisted rules, or null (the empty set)
\* Mutation of getConfig: the item is served from a copy of the table taken
\* when the service started
getConfigAtStart(table, serviceId) ==
  LET atStart == CHOOSE seeded \in SeededConfigTables : TRUE
  IN IF serviceId \in DOMAIN atStart THEN {atStart[serviceId]} ELSE {}

\* DynamoDBService.getConfig: the item of the serviceId, if any
getConfig(table, serviceId) ==
  IF serviceId \in DOMAIN table THEN {table[serviceId]} ELSE {}

\* Mutation of getServiceConfig: the compiled default is looked up first
getServiceConfigDefaultFirst(table, serviceId) ==
  IF serviceId \in DOMAIN DEFAULT_RATE_LIMITS
    THEN [error |-> NoError, rules |-> DEFAULT_RATE_LIMITS[serviceId]]
  ELSE IF getConfig(table, serviceId) # {}
    THEN [error |-> NoError, rules |-> table[serviceId]]
  ELSE [error |-> "No configuration found for service", rules |-> NoRules]

\* ConfigService.getServiceConfig: [error, rules]
getServiceConfig(table, serviceId) ==
  LET configRecord == getConfig(table, serviceId)
      defaultRules == PropertyKind(DEFAULT_RATE_LIMITS, serviceId)
  IN IF configRecord # {}
       THEN [error |-> NoError, rules |-> CHOOSE r \in configRecord : TRUE]
     ELSE IF defaultRules = "undefined"
       THEN [error |-> "No configuration found for service",
             rules |-> NoRules]
     ELSE IF defaultRules = "inherited"
       THEN [error |-> NoError, rules |-> NoRules]
     ELSE [error |-> NoError, rules |-> DEFAULT_RATE_LIMITS[serviceId]]

\* The fields a returned rate limit lacks when the selected value is not a
\* rule: { serviceId, tier, ...rule } then has neither
NoRuleFields == {"windowMs", "maxRequests"}

\* ConfigService.getRateLimit:
\* [error, tier, windowMs, maxRequests, missing]
getRateLimit(table, serviceId, tier) ==
  LET config == getServiceConfig(table, serviceId)
  IN IF config.error # NoError
       THEN [error |-> config.error, tier |-> tier,
             windowMs |-> 0, maxRequests |-> 0, missing |-> NoRuleFields]
     ELSE IF PropertyKind(config.rules, tier) = "own"
       THEN [error |-> NoError, tier |-> tier,
             windowMs |-> config.rules[tier].windowMs,
             maxRequests |-> config.rules[tier].maxRequests,
             missing |-> {}]
     ELSE IF PropertyKind(config.rules, tier) = "inherited"
       THEN [error |-> NoError, tier |-> tier,
             windowMs |-> 0, maxRequests |-> 0, missing |-> NoRuleFields]
     ELSE IF PropertyKind(config.rules, "default") = "own"
       THEN [error |-> NoError, tier |-> tier,
             windowMs |-> config.rules["default"].windowMs,
             maxRequests |-> config.rules["default"].maxRequests,
             missing |-> {}]
     ELSE [error |-> "No rate limit rule found", tier |-> tier,
           windowMs |-> 0, maxRequests |-> 0, missing |-> NoRuleFields]

ValidTiers == {"free", "pro", "enterprise", "default"}

\* Mutation of validateRequest: the tier is not checked
validateRequestTierUnchecked(serviceId, clientId, userTier) ==
  IF ~Truthy(serviceId) \/ serviceId.type # "string"
    THEN "Service ID is required and must be a string"
  ELSE IF ~Truthy(clientId) \/ clientId.type # "string"
    THEN "Client ID is required and must be a string"
  ELSE NoError

\* RateLimitService.validateRequest: the message thrown, or NoError.
\* userTier is undefined when the request has no metadata or no userTier.
validateRequest(serviceId, clientId, userTier) ==
  IF ~Truthy(serviceId) \/ serviceId.type # "string"
    THEN "Service ID is required and must be a string"
  ELSE IF ~Truthy(clientId) \/ clientId.type # "string"
    THEN "Client ID is required and must be a string"
  ELSE IF Truthy(userTier)
          /\ ~(userTier.type = "string" /\ userTier.str \in ValidTiers)
    THEN "Invalid user tier specified"
  ELSE NoError

\* const tier = request.metadata?.userTier || "default"
TierOf(userTier) == IF Truthy(userTier) THEN userTier.str ELSE "default"

\* Inputs of the calls the model issues
RequestServiceIds == {"svc"}
RequestClientIds == {"c1"}
RequestTiers == {JsUndefined, JsString("free")}

\* The requests handed to checkRateLimit
Requests ==
  {[serviceId |-> JsString(s), clientId |-> JsString(c), userTier |-> t] :
     s \in RequestServiceIds, c \in RequestClientIds, t \in RequestTiers}

(***************************************************************************)
(* Configurations handed to saveServiceConfig: serviceId is a JavaScript   *)
(* value; rules is undefined, a string or an object whose own properties   *)
(* are listed in insertion order (keys) with their values (props).         *)
(***************************************************************************)
JsRulesObject(keys, props) ==
  [type |-> "object", keys |-> keys, props |-> props]
JsRulesUndefined == [type |-> "undefined", keys |-> <<>>, props |-> NoRules]
JsRulesString == [type |-> "string", keys |-> <<>>, props |-> NoRules]

\* The first rule, in Object.entries order, that fails a check; the message
RECURSIVE validateRules(_, _)
validateRules(keys, props) ==
  IF keys = <<>> THEN NoError
  ELSE LET tier == Head(keys)
           rule == props[tier]
       IN IF rule.windowMs <= 0
            THEN "windowMs for tier '" \o tier \o "' must be a positive number"
          ELSE IF rule.maxRequests <= 0
            THEN "maxRequests for tier '" \o tier
                   \o "' must be a positive number"
          ELSE validateRules(Tail(keys), props)

\* ConfigService.validateConfig: the message thrown, or NoError
validateConfig(config) ==
  IF ~Truthy(config.serviceId) \/ config.serviceId.type # "string"
    THEN "Service ID is required and must be a string"
  ELSE IF config.rules.type # "object"
    THEN "Rules are required and must be an object"
  ELSE IF "default" \notin DOMAIN config.rules.props
    THEN "Default tier configuration is required"
  ELSE validateRules(config.rules.keys, config.rules.props)

\* DynamoDBService.getAllConfigs: the query serviceId = "ALL"
getAllConfigs(table) ==
  {[serviceId |-> s, rules |-> table[s]] : s \in DOMAIN table \cap {"ALL"}}

\* ConfigService.getAllServiceConfigs: the custom configurations, then the
\* compiled default of every service not among them
getAllServiceConfigs(table) ==
  LET configs == getAllConfigs(table)
      existingServiceIds == {c.serviceId : c \in configs}
  IN configs \cup
       {[serviceId |-> s, rules |-> DEFAULT_RATE_LIMITS[s]] :
          s \in DOMAIN DEFAULT_RATE_LIMITS \ existingServiceIds}

\* Mutation of hasCustomConfig: a compiled default counts as well
hasCustomConfigOrDefault(table, serviceId) ==
  getServiceConfig(table, serviceId).error = NoError

\* ConfigService.hasCustomConfig, the store answering
hasCustomConfig(table, serviceId) == getConfig(table, serviceId) # {}

\* The rules createDefaultConfig saves
CreateDefaultRules ==
  JsRulesObject(<<"default", "pro", "enterprise">>,
                [t \in {"default", "pro", "enterprise"} |->
                   CASE t = "default" -> Rule(3600000, 10)
                     [] t = "pro" -> Rule(3600000, 50)
                     [] t = "enterprise" -> Rule(3600000, 200)])

(***************************************************************************)
(* The usage table.                                                        *)
(***************************************************************************)
PartitionKey(serviceId, clientId) == serviceId \o "#" \o clientId

\* The item recordUsage builds at instant now
UsageItem(serviceId, clientId, now) ==
  [pk |-> PartitionKey(serviceId, clientId),
   sk |-> toString(now),
   timestamp |-> now,
   ttl |-> FloorDiv(now, MsPerSecond) + TtlSeconds]

\* PutCommand: an item with the same primary key (pk, sk) is replaced
PutItem(table, item) ==
  {r \in table : ~(r.pk = item.pk /\ r.sk = item.sk)} \cup {item}

\* DeleteCommand by primary key
DeleteItem(table, pk, sk) ==
  {r \in table : ~(r.pk = pk /\ r.sk = sk)}

\* Items of a set in ascending sort-key order, as a Query returns them
RECURSIVE SortBySk(_)
SortBySk(S) ==
  IF S = {} THEN <<>>
  ELSE LET first == CHOOSE r \in S : \A q \in S : ~StrLess(q.sk, r.sk)
       IN <<first>> \o SortBySk(S \ {first})

\* Mutation of getUsageInWindow: the range condition on sk is left out
getUsageInWindowAll(table, serviceId, clientId, windowStartMs) ==
  SortBySk({r \in table : r.pk = PartitionKey(serviceId, clientId)})

\* Mutation of getUsageInWindow: only the newest record of the key is read
getUsageInWindowNewest(table, serviceId, clientId, windowStartMs) ==
  LET records == SortBySk({r \in table :
                             /\ r.pk = PartitionKey(serviceId, clientId)
                             /\ StrGeq(r.sk, toString(windowStartMs))})
  IN IF Len(records) > 1 THEN <<records[Len(records)]>> ELSE records

\* DynamoDBService.getUsageInWindow: pk = :pk AND sk >= :windowStart
getUsageInWindow(table, serviceId, clientId, windowStartMs) ==
  SortBySk({r \in table :
              /\ r.pk = PartitionKey(serviceId, clientId)
              /\ StrGeq(r.sk, toString(windowStartMs))})

\* The query of cleanupOldUsage: pk = :pk AND sk < :beforeTimestamp
QueryOldUsage(table, serviceId, clientId, beforeTimestamp) ==
  {r \in table :
     /\ r.pk = PartitionKey(serviceId, clientId)
     /\ StrLess(r.sk, toString(beforeTimestamp))}

(***************************************************************************)
(* The decision of checkRateLimit.                                         *)
(***************************************************************************)
\* usageRecords.reduce((oldest, record) =>
\*   record.timestamp < oldest.timestamp ? record : oldest)
RECURSIVE ReduceOldest(_, _)
ReduceOldest(oldest, records) ==
  IF records = <<>> THEN oldest
  ELSE ReduceOldest(IF Head(records).timestamp < oldest.timestamp
                      THEN Head(records) ELSE oldest,
                    Tail(records))

OldestRequest(usageRecords) ==
  ReduceOldest(Head(usageRecords), Tail(usageRecords))

\* Mutation of calculateNextWindowStart: the end of the aligned window
calculateNextWindowStartAligned(currentTime, windowMs) ==
  (FloorDiv(currentTime, windowMs) + 1) * windowMs

\* For sliding window, next reset is current time + window
calculateNextWindowStart(currentTime, windowMs) == currentTime + windowMs

\* Mutation of IsAllowed: the limit itself is still admitted
IsAllowedInclusive(currentUsage, maxRequests) == currentUsage <= maxRequests

\* Mutation of IsAllowed: the last free place is refused
IsAllowedOffByOne(currentUsage, maxRequests) == currentUsage + 1 < maxRequests

\* const allowed = currentUsage < rateLimit.maxRequests
IsAllowed(currentUsage, maxRequests) == currentUsage < maxRequests

\* Mutation of Remaining: the difference is not clamped at zero
RemainingUnclamped(currentUsage, maxRequests) == maxRequests - currentUsage

Remaining(currentUsage, maxRequests) == Max(0, maxRequests - currentUsage)

RetryAfter(allowed, usageRecords, windowMs, now) ==
  IF ~allowed /\ Len(usageRecords) > 0
    THEN {CeilDiv(OldestRequest(usageRecords).timestamp + windowMs - now,
                  MsPerSecond)}
    ELSE Undefined

\* Mutation of ResponseRemaining: the request's own place is not deducted
ResponseRemainingNoDeduct(allowed, remaining) == remaining

\* remaining: allowed ? remaining - 1 : remaining
ResponseRemaining(allowed, remaining) ==
  IF allowed THEN remaining - 1 ELSE remaining

\* Mutation of AfterDecision: usage is recorded whatever the decision
AfterDecisionAlwaysRecord(allowed) == "put"

\* if (allowed) { await recordUsage(...) } else { /* not recorded */ }
AfterDecision(allowed) == IF allowed THEN "put" ELSE "done"

(***************************************************************************)
(* State.                                                                  *)
(***************************************************************************)
VARIABLES
  clock,        \* Date.now()
  ticks,        \* number of clock advances taken
  usageTable,   \* RateLimitUsage: set of items, (pk, sk) unique
  configTable,  \* RateLimitConfig: serviceId -> rules
  pc,           \* position of each checkRateLimit call in flight
  call,         \* locals of each checkRateLimit call in flight
  calls,        \* number of checkRateLimit calls issued
  response,     \* outcome of the checkRateLimit call that returned last
  cres,         \* outcome of the ConfigService operation that returned last
  helper,       \* the isBlocked / getTimeUntilReset / preload call
  http,         \* history: the POST /check requests handed to checkRateLimit
  rpc,          \* position of the resetRateLimit call
  rcall,        \* locals of the resetRateLimit call
  resets,       \* number of resetRateLimit calls issued
  admits,       \* history: bag of the allowed=true decisions returned
  rdisturbed,   \* history: a put on the reset's key landed since it began
  batch         \* the checkMultipleRateLimits call and its Promise.all

\* State of the operations other than checkRateLimit and resetRateLimit
apiVars == <<cres, helper, http>>

vars == <<clock, ticks, usageTable, configTable, pc, call, calls, response,
          rpc, rcall, resets, admits, rdisturbed, apiVars, batch>>

NoRequest ==
  [serviceId |-> JsUndefined, clientId |-> JsUndefined,
   userTier |-> JsUndefined]

BlankCall ==
  [returned |-> FALSE, request |-> NoRequest,
   serviceId |-> "", clientId |-> "", userTier |-> "",
   resolves |-> 0, queries |-> 0, thrown |-> NoError, failedAt |-> "",
   error |-> NoError, windowMs |-> 0, maxRequests |-> 0, now |-> 0,
   usageRecords |-> <<>>, allowed |-> FALSE, remaining |-> 0,
   resetTime |-> 0, retryAfter |-> Undefined, recordedAt |-> 0,
   appended |-> 0]

BlankReset == [serviceId |-> "", clientId |-> "", now |-> 0, pending |-> {}]

\* Outcome of a ConfigService operation: the operation and its arguments,
\* the error thrown (NoError: none), and the value returned
BlankResult ==
  [op |-> "none", serviceId |-> "", tier |-> "", error |-> NoError,
   rules |-> NoRules, windowMs |-> 0, maxRequests |-> 0, missing |-> {},
   has |-> FALSE, configs |-> {}, storeFailed |-> FALSE,
   config |-> [serviceId |-> JsUndefined, rules |-> JsRulesUndefined]]

\* Mutation of Propagate: the error is swallowed
PropagateSwallowed(error) == NoError

\* catch (error) { ...; throw error; } of checkRateLimit
Propagate(error) == error

\* The locals of a call at the point where `error` is thrown in step `at`
Failed(locals, error, at) ==
  [locals EXCEPT !.thrown = error, !.failedAt = at,
                 !.error = Propagate(error)]

\* Locals and outcome of a helper call: thrown is the error caught inside,
\* error the error the call itself throws
BlankHelper ==
  [pc |-> "idle", op |-> "none", serviceId |-> "", clientId |-> "",
   tier |-> "", serviceIds |-> <<>>, windowMs |-> 0, maxRequests |-> 0,
   now |-> 0, thrown |-> NoError, error |-> NoError, blocked |-> FALSE,
   time |-> 0, currentUsage |-> 0, remaining |-> 0, resetTime |-> 0]

InFlight(p) == pc[p] # "idle"

CallKey(p) == PartitionKey(call[p].serviceId, call[p].clientId)

ResetKey == PartitionKey(rcall.serviceId, rcall.clientId)

\* The checkMultipleRateLimits call.  values, remaining, status and error are
\* the state of its Promise.all: the array of fulfilment values, the count
\* of promises not yet fulfilled, and the settlement; the thrown error is
\* the rejection reason passed through catch (error) { ...; throw error; }.
\* outcomes, order and failures are history: the outcome of each entry, the
\* entries in the order they settled and those that rejected, in that order.
BlankBatch ==
  [status |-> "none", requests |-> <<>>, values |-> <<>>, remaining |-> 0,
   error |-> NoError, outcomes |-> <<>>, order |-> <<>>, failures |-> <<>>]

\* Mutation of PromiseAllSettle: a value is stored at the next free index
PromiseAllSettleInCompletionOrder(b, i, outcome) ==
  LET settled == [b EXCEPT !.outcomes[i] = outcome, !.order = Append(@, i)]
  IN IF outcome.error # NoError
       THEN [settled EXCEPT
               !.failures = Append(@, i),
               !.status = IF b.status = "pending" THEN "rejected" ELSE @,
               !.error = IF b.status = "pending"
                           THEN Propagate(outcome.error) ELSE @]
       ELSE [settled EXCEPT
               !.values[Len(b.values) - b.remaining + 1] = outcome,
               !.remaining = @ - 1,
               !.status = IF b.status = "pending" /\ b.remaining = 1
                            THEN "fulfilled" ELSE @]

\* Mutation of PromiseAllSettle: a later rejection replaces the reason
PromiseAllSettleLastError(b, i, outcome) ==
  LET settled == [b EXCEPT !.outcomes[i] = outcome, !.order = Append(@, i)]
  IN IF outcome.error # NoError
       THEN [settled EXCEPT
               !.failures = Append(@, i),
               !.status = IF b.status = "pending" THEN "rejected" ELSE @,
               !.error = Propagate(outcome.error)]
       ELSE [settled EXCEPT
               !.values[i] = outcome,
               !.remaining = @ - 1,
               !.status = IF b.status = "pending" /\ b.remaining = 1
                            THEN "fulfilled" ELSE @]

\* Promise.all reacts to the settlement of the promise at index i: the first
\* rejection rejects it with that reason; a fulfilment stores the value at
\* index i and, when it was the last one outstanding, fulfils it
PromiseAllSettle(b, i, outcome) ==
  LET settled == [b EXCEPT !.outcomes[i] = outcome, !.order = Append(@, i)]
  IN IF outcome.error # NoError
       THEN [settled EXCEPT
               !.failures = Append(@, i),
               !.status = IF b.status = "pending" THEN "rejected" ELSE @,
               !.error = IF b.status = "pending"
                           THEN Propagate(outcome.error) ELSE @]
       ELSE [settled EXCEPT
               !.values[i] = outcome,
               !.remaining = @ - 1,
               !.status = IF b.status = "pending" /\ b.remaining = 1
                            THEN "fulfilled" ELSE @]

\* The call returns (or throws): its outcome goes to the caller, which is
\* the Promise.all of checkMultipleRateLimits when the call is an entry of it
ReturnFrom(p, outcome) ==
  /\ response' = [outcome EXCEPT !.returned = TRUE]
  /\ batch' = IF p \in 1..Len(batch.requests)
                THEN PromiseAllSettle(batch, p,
                                      [outcome EXCEPT !.returned = TRUE])
                ELSE batch
  /\ pc' = [pc EXCEPT ![p] = "idle"]
  /\ call' = [call EXCEPT ![p] = BlankCall]

Init ==
  /\ clock = Epoch
  /\ ticks = 0
  /\ usageTable = {}
  /\ configTable \in SeededConfigTables
  /\ pc = [p \in Procs |-> "idle"]
  /\ call = [p \in Procs |-> BlankCall]
  /\ calls = 0
  /\ response = BlankCall
  /\ rpc = "idle"
  /\ rcall = BlankReset
  /\ resets = 0
  /\ admits = EmptyBag
  /\ rdisturbed = FALSE
  /\ cres = BlankResult
  /\ batch = BlankBatch
  /\ helper = BlankHelper
  /\ http = {}

(***************************************************************************)
(* The clock.                                                              *)
(***************************************************************************)
Tick ==
  /\ ticks < MaxTicks
  /\ \E d \in TickSteps : clock' = clock + d
  /\ ticks' = ticks + 1
  /\ UNCHANGED <<usageTable, configTable, pc, call, calls, response,
                 batch, rpc, rcall, resets, admits, rdisturbed, apiVars>>

(***************************************************************************)
(* checkRateLimit.                                                         *)
(***************************************************************************)
\* Entry and step 1: validateRequest.  The lowest free slot takes the call.
CallOf(p, requests) ==
  /\ pc[p] = "idle"
  /\ \A q \in Procs : q < p => InFlight(q)
  /\ calls < MaxCalls
  /\ \E r \in requests :
       LET err == validateRequest(r.serviceId, r.clientId, r.userTier)
           request == [BlankCall EXCEPT !.request = r,
                                        !.serviceId = r.serviceId.str,
                                        !.clientId = r.clientId.str,
                                        !.userTier = r.userTier.str]
       IN IF err # NoError
            THEN ReturnFrom(p, Failed(request, err, "validate"))
            ELSE /\ call' = [call EXCEPT ![p] = request]
                 /\ pc' = [pc EXCEPT ![p] = "config"]
                 /\ UNCHANGED <<response, batch>>
  /\ calls' = calls + 1
  /\ UNCHANGED <<clock, ticks, usageTable, configTable, rpc, rcall, resets,
                 admits, rdisturbed, apiVars>>

Call(p) == CallOf(p, Requests)

\* Steps 2 and 3: the tier rule is read, then now = Date.now()
ResolveConfig(p) ==
  /\ pc[p] = "config"
  /\ LET tier == TierOf(call[p].request.userTier)
         rateLimit == getRateLimit(configTable, call[p].serviceId, tier)
     IN IF rateLimit.error # NoError
          THEN ReturnFrom(p, Failed([call[p] EXCEPT !.resolves = @ + 1],
                                    rateLimit.error, "resolve"))
          ELSE /\ call' = [call EXCEPT ![p].windowMs = rateLimit.windowMs,
                                       ![p].resolves = @ + 1,
                                       ![p].maxRequests = rateLimit.maxRequests,
                                       ![p].now = clock]
               /\ pc' = [pc EXCEPT ![p] = "query"]
               /\ UNCHANGED <<response, batch>>
  /\ UNCHANGED <<clock, ticks, usageTable, configTable, calls, rpc, rcall,
                 resets, admits, rdisturbed, apiVars>>

\* Step 4: the store runs the range query
DbQuery(p) ==
  /\ pc[p] = "query"
  /\ LET windowStart == call[p].now - call[p].windowMs
     IN call' = [call EXCEPT ![p].usageRecords =
                   getUsageInWindow(usageTable, call[p].serviceId,
                                    call[p].clientId, windowStart),
                              ![p].queries = @ + 1]
  /\ pc' = [pc EXCEPT ![p] = "queried"]
  /\ UNCHANGED <<clock, ticks, usageTable, configTable, calls, response,
                 batch, rpc, rcall, resets, admits, rdisturbed, apiVars>>

\* Steps 5-7: the decision.  An allowed request starts recordUsage, which
\* stamps the item with its own Date.now(); a denied one returns.
AfterQuery(p) ==
  /\ pc[p] = "queried"
  /\ LET currentUsage == Len(call[p].usageRecords)
         allowed == IsAllowed(currentUsage, call[p].maxRequests)
         remaining == Remaining(currentUsage, call[p].maxRequests)
         decided ==
           [call[p] EXCEPT
              !.allowed = allowed,
              !.remaining = ResponseRemaining(allowed, remaining),
              !.resetTime =
                calculateNextWindowStart(call[p].now, call[p].windowMs),
              !.retryAfter =
                RetryAfter(allowed, call[p].usageRecords,
                           call[p].windowMs, call[p].now)]
     IN IF AfterDecision(allowed) = "put"
          THEN /\ call' = [call EXCEPT ![p] =
                             [decided EXCEPT !.recordedAt = clock]]
               /\ pc' = [pc EXCEPT ![p] = "put"]
               /\ UNCHANGED <<response, batch>>
          ELSE ReturnFrom(p, decided)
  /\ UNCHANGED <<clock, ticks, usageTable, configTable, calls, rpc, rcall,
                 resets, admits, rdisturbed, apiVars>>

\* Mutation of DbPut: once the checkMultipleRateLimits call has rejected,
\* the puts of its other entries are dropped
DbPutUnlessRejected(p) ==
  /\ pc[p] = "put"
  /\ usageTable' =
       IF batch.status = "rejected" THEN usageTable
       ELSE PutItem(usageTable,
                    UsageItem(call[p].serviceId, call[p].clientId,
                              call[p].recordedAt))
  /\ ReturnFrom(p, [call[p] EXCEPT !.appended = @ + 1])
  /\ admits' =
       IF call[p].allowed
         THEN admits (+) SetToBag({[pk |-> CallKey(p), now |-> call[p].now,
                                    serviceId |-> call[p].serviceId,
                                    clientId |-> call[p].clientId,
                                    windowMs |-> call[p].windowMs,
                                    maxRequests |-> call[p].maxRequests,
                                    currentUsage |->
                                      Len(call[p].usageRecords)]})
         ELSE admits
  /\ rdisturbed' = IF rpc # "idle" /\ ResetKey = CallKey(p)
                     THEN TRUE ELSE rdisturbed
  /\ UNCHANGED <<clock, ticks, configTable, calls, rpc, rcall, resets, apiVars>>

\* The store runs the put of recordUsage; the response is returned
DbPut(p) ==
  /\ pc[p] = "put"
  /\ usageTable' = PutItem(usageTable,
                           UsageItem(call[p].serviceId, call[p].clientId,
                                     call[p].recordedAt))
  /\ ReturnFrom(p, [call[p] EXCEPT !.appended = @ + 1])
  /\ admits' =
       IF call[p].allowed
         THEN admits (+) SetToBag({[pk |-> CallKey(p), now |-> call[p].now,
                                    serviceId |-> call[p].serviceId,
                                    clientId |-> call[p].clientId,
                                    windowMs |-> call[p].windowMs,
                                    maxRequests |-> call[p].maxRequests,
                                    currentUsage |->
                                      Len(call[p].usageRecords)]})
         ELSE admits
  /\ rdisturbed' = IF rpc # "idle" /\ ResetKey = CallKey(p)
                     THEN TRUE ELSE rdisturbed
  /\ UNCHANGED <<clock, ticks, configTable, calls, rpc, rcall, resets, apiVars>>

(***************************************************************************)
(* resetRateLimit -> cleanupOldUsage(serviceId, clientId, Date.now()).     *)
(***************************************************************************)
ResetServiceIds == {"svc"}
ResetClientIds == {"c1"}

ResetCall ==
  /\ rpc \in {"idle", "done"}
  /\ resets < MaxResets
  /\ \E s \in ResetServiceIds, c \in ResetClientIds :
       rcall' = [BlankReset EXCEPT !.serviceId = s, !.clientId = c,
                                   !.now = clock]
  /\ rpc' = "query"
  /\ resets' = resets + 1
  /\ rdisturbed' = FALSE
  /\ UNCHANGED <<clock, ticks, usageTable, configTable, pc, call, calls,
                 response, batch, admits, apiVars>>

\* The store runs the query for the old items; nothing found: return
DbResetQuery ==
  /\ rpc = "query"
  /\ LET items == QueryOldUsage(usageTable, rcall.serviceId, rcall.clientId,
                                rcall.now)
     IN /\ rcall' = [rcall EXCEPT !.pending = items]
        /\ rpc' = IF items = {} THEN "done" ELSE "delete"
  /\ UNCHANGED <<clock, ticks, usageTable, configTable, pc, call, calls,
                 response, batch, resets, admits, rdisturbed, apiVars>>

\* The store runs one of the deletes; after the last one the call returns
DbDelete ==
  /\ rpc = "delete"
  /\ \E item \in rcall.pending :
       /\ usageTable' = DeleteItem(usageTable, item.pk, item.sk)
       /\ rcall' = [rcall EXCEPT !.pending = @ \ {item}]
       /\ rpc' = IF rcall.pending = {item} THEN "done" ELSE "delete"
  /\ UNCHANGED <<clock, ticks, configTable, pc, call, calls, response, batch,
                 resets, admits, rdisturbed, apiVars>>

Next ==
  \/ Tick
  \/ \E p \in Procs : Call(p)
  \/ \E p \in Procs : ResolveConfig(p)
  \/ \E p \in Procs : DbQuery(p)
  \/ \E p \in Procs : AfterQuery(p)
  \/ \E p \in Procs : DbPut(p)
  \/ ResetCall
  \/ DbResetQuery
  \/ DbDelete

Spec == Init /\ [][Next]_vars

(***************************************************************************)
(* Calls that never overlap: a call starts only when none is in flight.    *)
(***************************************************************************)
CallSeq(p) ==
  /\ \A q \in Procs : ~InFlight(q)
  /\ Call(p)

NextSeq ==
  \/ Tick
  \/ \E p \in Procs : CallSeq(p)
  \/ \E p \in Procs : ResolveConfig(p)
  \/ \E p \in Procs : DbQuery(p)
  \/ \E p \in Procs : AfterQuery(p)
  \/ \E p \in Procs : DbPut(p)

SpecSeq == Init /\ [][NextSeq]_vars

(***************************************************************************)
(* The same calls under a persisted rule that admits one request a second. *)
(***************************************************************************)
RetryConfigTables ==
  { [s \in {"svc"} |-> [t \in {"default"} |-> Rule(1000, 1)]] }

InitRetry ==
  /\ clock = Epoch
  /\ ticks = 0
  /\ usageTable = {}
  /\ configTable \in RetryConfigTables
  /\ pc = [p \in Procs |-> "idle"]
  /\ call = [p \in Procs |-> BlankCall]
  /\ calls = 0
  /\ response = BlankCall
  /\ rpc = "idle"
  /\ rcall = BlankReset
  /\ resets = 0
  /\ admits = EmptyBag
  /\ rdisturbed = FALSE
  /\ cres = BlankResult
  /\ helper = BlankHelper
  /\ http = {}
  /\ batch = BlankBatch

SpecRetry == InitRetry /\ [][NextSeq]_vars

(***************************************************************************)
(* Two pairs of ids that hold the separator: services "a" and "a#b" both   *)
(* have a persisted config, and calls that never overlap come for          *)
(* ("a#b", "c") and for ("a", "b#c").                                      *)
(***************************************************************************)
PairConfigTables ==
  { [s \in {"a", "a#b"} |-> [t \in {"default"} |-> Rule(1000, 2)]] }

PairRequests ==
  { [serviceId |-> JsString("a#b"), clientId |-> JsString("c"),
     userTier |-> JsUndefined],
    [serviceId |-> JsString("a"), clientId |-> JsString("b#c"),
     userTier |-> JsUndefined] }

InitPairs ==
  /\ clock = Epoch
  /\ ticks = 0
  /\ usageTable = {}
  /\ configTable \in PairConfigTables
  /\ pc = [p \in Procs |-> "idle"]
  /\ call = [p \in Procs |-> BlankCall]
  /\ calls = 0
  /\ response = BlankCall
  /\ rpc = "idle"
  /\ rcall = BlankReset
  /\ resets = 0
  /\ admits = EmptyBag
  /\ rdisturbed = FALSE
  /\ cres = BlankResult
  /\ helper = BlankHelper
  /\ http = {}
  /\ batch = BlankBatch

CallPairs(p) ==
  /\ \A q \in Procs : ~InFlight(q)
  /\ CallOf(p, PairRequests)

NextPairs ==
  \/ Tick
  \/ \E p \in Procs : CallPairs(p)
  \/ \E p \in Procs : ResolveConfig(p)
  \/ \E p \in Procs : DbQuery(p)
  \/ \E p \in Procs : AfterQuery(p)
  \/ \E p \in Procs : DbPut(p)

SpecPairs == InitPairs /\ [][NextPairs]_vars

(***************************************************************************)
(* One client evaluated under two tiers of one service: the persisted      *)
(* rules admit three requests per second under "default" and two under     *)
(* "pro".  Calls do not overlap.                                           *)
(***************************************************************************)
TierConfigTables ==
  { [s \in {"svc"} |->
       [t \in {"default", "pro"} |->
          IF t = "default" THEN Rule(1000, 3) ELSE Rule(1000, 2)]] }

TierRequests ==
  {[serviceId |-> JsString("svc"), clientId |-> JsString("c1"),
    userTier |-> t] : t \in {JsUndefined, JsString("pro")}}

InitTiers ==
  /\ clock = Epoch
  /\ ticks = 0
  /\ usageTable = {}
  /\ configTable \in TierConfigTables
  /\ pc = [p \in Procs |-> "idle"]
  /\ call = [p \in Procs |-> BlankCall]
  /\ calls = 0
  /\ response = BlankCall
  /\ rpc = "idle"
  /\ rcall = BlankReset
  /\ resets = 0
  /\ admits = EmptyBag
  /\ rdisturbed = FALSE
  /\ cres = BlankResult
  /\ helper = BlankHelper
  /\ http = {}
  /\ batch = BlankBatch

CallTiers(p) ==
  /\ \A q \in Procs : ~InFlight(q)
  /\ CallOf(p, TierRequests)

NextTiers ==
  \/ Tick
  \/ \E p \in Procs : CallTiers(p)
  \/ \E p \in Procs : ResolveConfig(p)
  \/ \E p \in Procs : DbQuery(p)
  \/ \E p \in Procs : AfterQuery(p)
  \/ \E p \in Procs : DbPut(p)

SpecTiers == InitTiers /\ [][NextTiers]_vars

(***************************************************************************)
(* Concurrent calls of checkRateLimit alone.                               *)
(***************************************************************************)
NextEval ==
  \/ Tick
  \/ \E p \in Procs : Call(p)
  \/ \E p \in Procs : ResolveConfig(p)
  \/ \E p \in Procs : DbQuery(p)
  \/ \E p \in Procs : AfterQuery(p)
  \/ \E p \in Procs : DbPut(p)

SpecEval == Init /\ [][NextEval]_vars

(***************************************************************************)
(* checkRateLimit with failing collaborators: the read of the config       *)
(* table, the usage query or the put of recordUsage rejects.  Calls do not *)
(* overlap; the requests include malformed and unconfigured ones.          *)
(***************************************************************************)
ErrServiceIds ==
  {JsString("svc"), JsString("nosuch"), JsString("constructor"),
   JsString(""), JsNumber(7)}
ErrClientIds == {JsString("c1"), JsString("")}
ErrTiers ==
  {JsUndefined, JsString("free"), JsString("gold"), JsString(""),
   JsNumber(7)}

ErrRequests ==
  {[serviceId |-> s, clientId |-> c, userTier |-> t] :
     s \in ErrServiceIds, c \in ErrClientIds, t \in ErrTiers}

CallErr(p) ==
  /\ \A q \in Procs : ~InFlight(q)
  /\ CallOf(p, ErrRequests)

\* The read of the config table rejects
ResolveConfigFails(p) ==
  /\ pc[p] = "config"
  /\ ReturnFrom(p, Failed([call[p] EXCEPT !.resolves = @ + 1],
                          StoreError, "resolve"))
  /\ UNCHANGED <<clock, ticks, usageTable, configTable, calls, rpc, rcall,
                 resets, admits, rdisturbed, apiVars>>

\* The usage query rejects
DbQueryFails(p) ==
  /\ pc[p] = "query"
  /\ ReturnFrom(p, Failed([call[p] EXCEPT !.queries = @ + 1],
                          StoreError, "query"))
  /\ UNCHANGED <<clock, ticks, usageTable, configTable, calls, rpc, rcall,
                 resets, admits, rdisturbed, apiVars>>

\* The put of recordUsage rejects; the item may have been written or not
DbPutFails(p) ==
  /\ pc[p] = "put"
  /\ \E written \in BOOLEAN :
       usageTable' =
         IF written
           THEN PutItem(usageTable,
                        UsageItem(call[p].serviceId, call[p].clientId,
                                  call[p].recordedAt))
           ELSE usageTable
  /\ ReturnFrom(p, Failed(call[p], StoreError, "append"))
  /\ UNCHANGED <<clock, ticks, configTable, calls, rpc, rcall, resets,
                 admits, rdisturbed, apiVars>>

NextErr ==
  \/ Tick
  \/ \E p \in Procs : CallErr(p)
  \/ \E p \in Procs : ResolveConfig(p)
  \/ \E p \in Procs : ResolveConfigFails(p)
  \/ \E p \in Procs : DbQuery(p)
  \/ \E p \in Procs : DbQueryFails(p)
  \/ \E p \in Procs : AfterQuery(p)
  \/ \E p \in Procs : DbPut(p)
  \/ \E p \in Procs : DbPutFails(p)

SpecErr == Init /\ [][NextErr]_vars

(***************************************************************************)
(* ConfigService.  Every operation makes one call of the store, so it is   *)
(* one step; the call of the store may fail, and a failed call is taken to *)
(* have had no effect on the table.                                        *)
(***************************************************************************)
ConfigServiceIds == {"svc", "api-general", "ALL"}
ResolveServiceIds ==
  ConfigServiceIds \cup {"upload-images", "nosuch", "constructor"}
ResolveTiers == {"default", "pro", "gold", "constructor"}

\* The rules handed to saveServiceConfig and updateServiceConfig
SaveRules ==
  { JsRulesUndefined,
    JsRulesString,
    JsRulesObject(<<"default">>, [t \in {"default"} |-> Rule(60000, 5)]),
    JsRulesObject(<<"default", "pro">>,
                  [t \in {"default", "pro"} |->
                     IF t = "default" THEN Rule(60000, 5)
                                      ELSE Rule(60000, 9)]),
    JsRulesObject(<<"pro">>, [t \in {"pro"} |-> Rule(60000, 9)]),
    JsRulesObject(<<"default">>, [t \in {"default"} |-> Rule(0, 5)]),
    JsRulesObject(<<"default", "pro">>,
                  [t \in {"default", "pro"} |->
                     IF t = "default" THEN Rule(60000, 5)
                                      ELSE Rule(60000, 0)]),
    JsRulesObject(<<"pro", "default">>,
                  [t \in {"default", "pro"} |->
                     IF t = "default" THEN Rule(-1, 5)
                                      ELSE Rule(60000, -1)]) }

SaveServiceIds ==
  {JsString(s) : s \in ConfigServiceIds} \cup {JsString(""), JsNumber(7)}

\* Mutation of PutConfig: a put that keeps the item already stored
PutConfigIfAbsent(table, serviceId, rules) ==
  [s \in DOMAIN table \cup {serviceId} |->
     IF s \in DOMAIN table THEN table[s] ELSE rules]

\* The PutCommand of saveConfig: the item replaces the one of its serviceId
PutConfig(table, serviceId, rules) ==
  [s \in DOMAIN table \cup {serviceId} |->
     IF s = serviceId THEN rules ELSE table[s]]

DeleteConfig(table, serviceId) ==
  [s \in DOMAIN table \ {serviceId} |-> table[s]]

configUnchanged ==
  UNCHANGED <<clock, ticks, usageTable, pc, call, calls, response, batch, rpc,
              rcall, resets, admits, rdisturbed, helper, http>>

\* Mutation of SaveOutcome: the record is put before it is validated
SaveOutcomePutFirst(op, config, storeFails) ==
  LET err == validateConfig(config)
  IN /\ cres' = [BlankResult EXCEPT
                   !.op = op, !.config = config,
                   !.serviceId = config.serviceId.str,
                   !.rules = config.rules.props,
                   !.error = IF err # NoError THEN err
                             ELSE IF storeFails THEN StoreError ELSE NoError,
                   !.storeFailed = storeFails]
     /\ configTable' =
          IF storeFails
            THEN configTable
            ELSE PutConfig(configTable, config.serviceId.str,
                           config.rules.props)

\* saveServiceConfig: validateConfig, then the put of saveConfig
SaveOutcome(op, config, storeFails) ==
  LET err == validateConfig(config)
  IN /\ cres' = [BlankResult EXCEPT
                   !.op = op, !.config = config,
                   !.serviceId = config.serviceId.str,
                   !.rules = config.rules.props,
                   !.error = IF err # NoError THEN err
                             ELSE IF storeFails THEN StoreError ELSE NoError,
                   !.storeFailed = err = NoError /\ storeFails]
     /\ configTable' =
          IF err # NoError \/ storeFails
            THEN configTable
            ELSE PutConfig(configTable, config.serviceId.str,
                           config.rules.props)

SaveServiceConfig ==
  /\ \E id \in SaveServiceIds, rules \in SaveRules, storeFails \in BOOLEAN :
       SaveOutcome("saveServiceConfig",
                   [serviceId |-> id, rules |-> rules], storeFails)
  /\ configUnchanged

\* updateServiceConfig(serviceId, rules) saves { serviceId, rules }
UpdateServiceConfig ==
  /\ \E id \in SaveServiceIds, rules \in SaveRules, storeFails \in BOOLEAN :
       SaveOutcome("updateServiceConfig",
                   [serviceId |-> id, rules |-> rules], storeFails)
  /\ configUnchanged

\* createDefaultConfig(serviceId) saves the fixed three-tier rules
CreateDefaultConfig ==
  /\ \E id \in SaveServiceIds, storeFails \in BOOLEAN :
       SaveOutcome("createDefaultConfig",
                   [serviceId |-> id, rules |-> CreateDefaultRules],
                   storeFails)
  /\ configUnchanged

DeleteServiceConfig ==
  /\ \E id \in ConfigServiceIds, storeFails \in BOOLEAN :
       /\ cres' = [BlankResult EXCEPT
                     !.op = "deleteServiceConfig", !.serviceId = id,
                     !.error = IF storeFails THEN StoreError ELSE NoError,
                     !.storeFailed = storeFails]
       /\ configTable' = IF storeFails THEN configTable
                         ELSE DeleteConfig(configTable, id)
  /\ configUnchanged

GetServiceConfig ==
  /\ \E id \in ResolveServiceIds, storeFails \in BOOLEAN :
       LET config == getServiceConfig(configTable, id)
       IN cres' = [BlankResult EXCEPT
                     !.op = "getServiceConfig", !.serviceId = id,
                     !.error = IF storeFails THEN StoreError
                               ELSE config.error,
                     !.rules = IF storeFails THEN NoRules ELSE config.rules,
                     !.storeFailed = storeFails]
  /\ UNCHANGED configTable
  /\ configUnchanged

GetRateLimit ==
  /\ \E id \in ResolveServiceIds, tier \in ResolveTiers,
        storeFails \in BOOLEAN :
       LET rateLimit == getRateLimit(configTable, id, tier)
       IN cres' = [BlankResult EXCEPT
                     !.op = "getRateLimit", !.serviceId = id, !.tier = tier,
                     !.error = IF storeFails THEN StoreError
                               ELSE rateLimit.error,
                     !.windowMs = IF storeFails THEN 0
                                  ELSE rateLimit.windowMs,
                     !.maxRequests = IF storeFails THEN 0
                                     ELSE rateLimit.maxRequests,
                     !.missing = IF storeFails THEN NoRuleFields
                                 ELSE rateLimit.missing,
                     !.storeFailed = storeFails]
  /\ UNCHANGED configTable
  /\ configUnchanged

\* hasCustomConfig: a failed read is caught and answered with false
HasCustomConfig ==
  /\ \E id \in ResolveServiceIds, storeFails \in BOOLEAN :
       cres' = [BlankResult EXCEPT
                  !.op = "hasCustomConfig", !.serviceId = id,
                  !.has = IF storeFails THEN FALSE
                          ELSE hasCustomConfig(configTable, id),
                  !.storeFailed = storeFails]
  /\ UNCHANGED configTable
  /\ configUnchanged

GetAllServiceConfigs ==
  /\ \E storeFails \in BOOLEAN :
       cres' = [BlankResult EXCEPT
                  !.op = "getAllServiceConfigs",
                  !.error = IF storeFails THEN StoreError ELSE NoError,
                  !.configs = IF storeFails THEN {}
                              ELSE getAllServiceConfigs(configTable),
                  !.storeFailed = storeFails]
  /\ UNCHANGED configTable
  /\ configUnchanged

NextConfig ==
  \/ SaveServiceConfig
  \/ UpdateServiceConfig
  \/ CreateDefaultConfig
  \/ DeleteServiceConfig
  \/ GetServiceConfig
  \/ GetRateLimit
  \/ HasCustomConfig
  \/ GetAllServiceConfigs

SpecConfig == Init /\ [][NextConfig]_vars

(***************************************************************************)
(* The fail-open helpers.  isBlocked and getTimeUntilReset await           *)
(* getUsageStats, which reads the tier rule and then queries the usage     *)
(* table; either read may reject.  preloadConfigurations awaits the        *)
(* getServiceConfig of every serviceId; its reads change nothing and their *)
(* results are dropped, so it is one step.  The helpers write nothing, so   *)
(* a second call would reach no state that a first call does not reach:    *)
(* one call is followed.                                                   *)
(***************************************************************************)
HelperOps == {"isBlocked", "getTimeUntilReset"}
HelperServiceIds == {"svc", "nosuch"}
HelperClientIds == {"c1"}
HelperTiers == {"default", "free"}
PreloadLists == {<<>>, <<"svc">>, <<"nosuch">>, <<"svc", "nosuch">>}

\* Mutation of isBlockedOnError: fail closed
isBlockedOnErrorClosed == TRUE

\* catch (error) { return false; // Fail open }
isBlockedOnError == FALSE

\* catch (error) { return 0; }
getTimeUntilResetOnError == 0

\* Mutation of isBlocked: blocked only below zero
isBlockedStrict(remaining) == remaining < 0

\* return stats.remaining <= 0
isBlocked(remaining) == remaining <= 0

\* The helper catches `error` and returns its fail-open value
HelperCaught(locals, error) ==
  [locals EXCEPT !.pc = "done", !.thrown = error,
                 !.blocked = isBlockedOnError,
                 !.time = getTimeUntilResetOnError]

helperUnchanged ==
  UNCHANGED <<clock, ticks, usageTable, configTable, pc, call, calls,
              response, batch, rpc, rcall, resets, admits, rdisturbed, cres,
              http>>

\* The call starts and getUsageStats reads the rule; then now = Date.now()
HelperResolve ==
  /\ helper.pc = "idle"
  /\ \E op \in HelperOps, s \in HelperServiceIds, c \in HelperClientIds,
        t \in HelperTiers, storeFails \in BOOLEAN :
       LET locals == [BlankHelper EXCEPT !.op = op, !.serviceId = s,
                                         !.clientId = c, !.tier = t]
           rateLimit == getRateLimit(configTable, s, t)
       IN helper' =
            IF storeFails THEN HelperCaught(locals, StoreError)
            ELSE IF rateLimit.error # NoError
              THEN HelperCaught(locals, rateLimit.error)
            ELSE [locals EXCEPT !.pc = "query",
                                !.windowMs = rateLimit.windowMs,
                                !.maxRequests = rateLimit.maxRequests,
                                !.now = clock]
  /\ helperUnchanged

\* getUsageStats gets the answer of the usage query; the helper returns
HelperQuery ==
  /\ helper.pc = "query"
  /\ \E storeFails \in BOOLEAN :
       LET usageRecords ==
             getUsageInWindow(usageTable, helper.serviceId, helper.clientId,
                              helper.now - helper.windowMs)
           remaining == Remaining(Len(usageRecords), helper.maxRequests)
           resetTime == calculateNextWindowStart(helper.now, helper.windowMs)
       IN helper' =
            IF storeFails THEN HelperCaught(helper, StoreError)
            ELSE [helper EXCEPT !.pc = "done",
                                !.blocked = isBlocked(remaining),
                                !.time = Max(0, resetTime - clock)]
  /\ helperUnchanged

\* preloadConfigurations(serviceIds): a rejected getServiceConfig rejects
\* the Promise.all, which is caught and logged
PreloadConfigurations ==
  /\ helper.pc = "idle"
  /\ \E ids \in PreloadLists, failing \in SUBSET {"svc", "nosuch"} :
       LET errors ==
             {IF ids[i] \in failing THEN StoreError
              ELSE getServiceConfig(configTable, ids[i]).error :
                i \in 1..Len(ids)} \ {NoError}
       IN \E e \in IF errors = {} THEN {NoError} ELSE errors :
            helper' = [BlankHelper EXCEPT !.pc = "done", !.op = "preload",
                                          !.serviceIds = ids, !.thrown = e]
  /\ helperUnchanged

NextHelpers ==
  \/ Tick
  \/ \E p \in Procs : CallSeq(p)
  \/ \E p \in Procs : ResolveConfig(p)
  \/ \E p \in Procs : DbQuery(p)
  \/ \E p \in Procs : AfterQuery(p)
  \/ \E p \in Procs : DbPut(p)
  \/ HelperResolve
  \/ HelperQuery
  \/ PreloadConfigurations

SpecHelpers == Init /\ [][NextHelpers]_vars

(***************************************************************************)
(* getUsageStats called on its own: the same two reads, but a rejected     *)
(* read is logged and thrown again, and the statistics are returned.       *)
(***************************************************************************)
\* catch (error) { console.error(...); throw error; }
StatsThrows(locals, error) ==
  [locals EXCEPT !.pc = "done", !.thrown = error, !.error = Propagate(error)]

\* The call starts and reads the rule; then now = Date.now()
StatsResolve ==
  /\ helper.pc = "idle"
  /\ \E s \in HelperServiceIds, c \in HelperClientIds, t \in HelperTiers,
        storeFails \in BOOLEAN :
       LET locals == [BlankHelper EXCEPT !.op = "getUsageStats",
                                         !.serviceId = s, !.clientId = c,
                                         !.tier = t]
           rateLimit == getRateLimit(configTable, s, t)
       IN helper' =
            IF storeFails THEN StatsThrows(locals, StoreError)
            ELSE IF rateLimit.error # NoError
              THEN StatsThrows(locals, rateLimit.error)
            ELSE [locals EXCEPT !.pc = "stats",
                                !.windowMs = rateLimit.windowMs,
                                !.maxRequests = rateLimit.maxRequests,
                                !.now = clock]
  /\ helperUnchanged

\* The usage query answers and the statistics are returned
StatsQuery ==
  /\ helper.pc = "stats"
  /\ \E storeFails \in BOOLEAN :
       LET usageRecords ==
             getUsageInWindow(usageTable, helper.serviceId, helper.clientId,
                              helper.now - helper.windowMs)
           currentUsage == Len(usageRecords)
       IN helper' =
            IF storeFails THEN StatsThrows(helper, StoreError)
            ELSE [helper EXCEPT
                    !.pc = "done",
                    !.currentUsage = currentUsage,
                    !.remaining = Remaining(currentUsage, helper.maxRequests),
                    !.resetTime =
                      calculateNextWindowStart(helper.now, helper.windowMs)]
  /\ helperUnchanged

NextStats ==
  \/ Tick
  \/ \E p \in Procs : CallSeq(p)
  \/ \E p \in Procs : ResolveConfig(p)
  \/ \E p \in Procs : DbQuery(p)
  \/ \E p \in Procs : AfterQuery(p)
  \/ \E p \in Procs : DbPut(p)
  \/ HelperResolve
  \/ HelperQuery
  \/ StatsResolve
  \/ StatsQuery

SpecStats == Init /\ [][NextStats]_vars

(***************************************************************************)
(* Resolution and evaluation side by side: checkRateLimit on malformed and *)
(* unconfigured requests, getServiceConfig and getRateLimit.               *)
(***************************************************************************)
NextResolve ==
  \/ \E p \in Procs : CallErr(p)
  \/ \E p \in Procs : ResolveConfig(p)
  \/ \E p \in Procs : DbQuery(p)
  \/ \E p \in Procs : AfterQuery(p)
  \/ \E p \in Procs : DbPut(p)
  \/ GetServiceConfig
  \/ GetRateLimit

SpecResolve == Init /\ [][NextResolve]_vars

(***************************************************************************)
(* checkMultipleRateLimits(requests): requests.map starts one              *)
(* checkRateLimit per entry, in order and each up to its first await, so   *)
(* an entry that fails validation has rejected before any other entry goes *)
(* on; Promise.all collects the settlements.  Entry i runs in slot i.      *)
(***************************************************************************)
BatchRequests ==
  { [serviceId |-> JsString("svc"), clientId |-> JsString("c1"),
     userTier |-> JsUndefined],
    [serviceId |-> JsString("svc"), clientId |-> JsString("c1"),
     userTier |-> JsString("free")],
    [serviceId |-> JsString("nosuch"), clientId |-> JsString("c1"),
     userTier |-> JsUndefined],
    [serviceId |-> JsString("constructor"), clientId |-> JsString("c1"),
     userTier |-> JsUndefined],
    [serviceId |-> JsString("svc"), clientId |-> JsString(""),
     userTier |-> JsUndefined] }

BatchLists == UNION {[1..n -> BatchRequests] : n \in 0..NProcs}

\* The locals of the call started for request r
BatchEntry(r) ==
  [BlankCall EXCEPT !.request = r, !.serviceId = r.serviceId.str,
                    !.clientId = r.clientId.str, !.userTier = r.userTier.str]

BatchInvalid(r) == validateRequest(r.serviceId, r.clientId, r.userTier)

\* What the entry that fails validation throws
BatchRejected(r) ==
  [Failed(BatchEntry(r), BatchInvalid(r), "validate") EXCEPT
     !.returned = TRUE]

\* The entries from index i on that fail validation settle, in index order
RECURSIVE SettleInvalid(_, _)
SettleInvalid(b, i) ==
  IF i > Len(b.requests) THEN b
  ELSE IF BatchInvalid(b.requests[i]) # NoError
    THEN SettleInvalid(PromiseAllSettle(b, i, BatchRejected(b.requests[i])),
                       i + 1)
  ELSE SettleInvalid(b, i + 1)

\* Promise.all over n promises: an empty list is fulfilled at once
PromiseAll(requests) ==
  [BlankBatch EXCEPT
     !.status = IF Len(requests) = 0 THEN "fulfilled" ELSE "pending",
     !.requests = requests,
     !.values = [i \in 1..Len(requests) |-> BlankCall],
     !.outcomes = [i \in 1..Len(requests) |-> BlankCall],
     !.remaining = Len(requests)]

CheckMultipleRateLimits ==
  /\ batch.status = "none"
  /\ \A p \in Procs : ~InFlight(p)
  /\ \E requests \in BatchLists :
       LET n == Len(requests)
           starts(p) == p <= n /\ BatchInvalid(requests[p]) = NoError
           invalid == {i \in 1..n : BatchInvalid(requests[i]) # NoError}
           last == CHOOSE i \in invalid : \A j \in invalid : j <= i
       IN /\ calls + n <= MaxCalls
          /\ calls' = calls + n
          /\ call' = [p \in Procs |->
                        IF starts(p) THEN BatchEntry(requests[p])
                                     ELSE BlankCall]
          /\ pc' = [p \in Procs |-> IF starts(p) THEN "config" ELSE "idle"]
          /\ batch' = SettleInvalid(PromiseAll(requests), 1)
          /\ response' = IF invalid = {} THEN response
                         ELSE BatchRejected(requests[last])
  /\ UNCHANGED <<clock, ticks, usageTable, configTable, rpc, rcall, resets,
                 admits, rdisturbed, apiVars>>

NextBatch ==
  \/ CheckMultipleRateLimits
  \/ \E p \in Procs : ResolveConfig(p)
  \/ \E p \in Procs : DbQuery(p)
  \/ \E p \in Procs : AfterQuery(p)
  \/ \E p \in Procs : DbPut(p)

SpecBatch == Init /\ [][NextBatch]_vars

\* The promise of every entry goes on whatever the other promises did: each
\* of its awaits is answered
BatchFairness ==
  \A p \in Procs :
    /\ WF_vars(ResolveConfig(p))
    /\ WF_vars(DbQuery(p))
    /\ WF_vars(AfterQuery(p))
    /\ WF_vars(DbPut(p))

SpecBatchFair == SpecBatch /\ BatchFairness

(***************************************************************************)
(* The usage query around a power of ten.  The service is started on a     *)
(* usage table that earlier admitted calls have filled, at an instant      *)
(* whose decimal form is one digit longer than the one of the window       *)
(* start; sequential evaluations and getUsageStats then query it.          *)
(***************************************************************************)
PowerOfTen == 1000000000
WindowTimestamps ==
  {PowerOfTen - 500, PowerOfTen - 1, PowerOfTen, PowerOfTen + 400}
WindowClocks == {PowerOfTen, PowerOfTen + 400, PowerOfTen + 600}

\* Tables of at most two records of "svc#c1", none stamped after `now`
WindowTables(now) ==
  {{UsageItem("svc", "c1", t) : t \in T} :
     T \in {U \in SUBSET WindowTimestamps :
              Cardinality(U) <= 2 /\ \A t \in U : t <= now}}

InitWindow ==
  /\ clock \in WindowClocks
  /\ ticks = 0
  /\ usageTable \in WindowTables(clock)
  /\ configTable \in SeededConfigTables
  /\ pc = [p \in Procs |-> "idle"]
  /\ call = [p \in Procs |-> BlankCall]
  /\ calls = 0
  /\ response = BlankCall
  /\ rpc = "idle"
  /\ rcall = BlankReset
  /\ resets = 0
  /\ admits = EmptyBag
  /\ rdisturbed = FALSE
  /\ cres = BlankResult
  /\ helper = BlankHelper
  /\ http = {}
  /\ batch = BlankBatch

NextWindow ==
  \/ \E p \in Procs : CallSeq(p)
  \/ \E p \in Procs : ResolveConfig(p)
  \/ \E p \in Procs : DbQuery(p)
  \/ \E p \in Procs : AfterQuery(p)
  \/ \E p \in Procs : DbPut(p)
  \/ StatsResolve
  \/ StatsQuery

SpecWindow == InitWindow /\ [][NextWindow]_vars

(***************************************************************************)
(* The check-then-record race on one key under one rule.  Up to NProcs     *)
(* calls of checkRateLimit for "svc#c1" are in flight together under the   *)
(* persisted rule of one request per second; the clock advances up to      *)
(* MaxRaceTicks times.  The service runs either at Epoch, where a window   *)
(* start has as many digits as the instants, or from PowerOfTen on, where  *)
(* it has one digit less.                                                  *)
(***************************************************************************)
MaxRaceTicks == 2
RaceClocks == {Epoch, PowerOfTen}
RaceRequests ==
  {[serviceId |-> JsString("svc"), clientId |-> JsString("c1"),
    userTier |-> JsUndefined]}

InitRace ==
  /\ clock \in RaceClocks
  /\ ticks = 0
  /\ usageTable = {}
  /\ configTable \in RetryConfigTables
  /\ pc = [p \in Procs |-> "idle"]
  /\ call = [p \in Procs |-> BlankCall]
  /\ calls = 0
  /\ response = BlankCall
  /\ rpc = "idle"
  /\ rcall = BlankReset
  /\ resets = 0
  /\ admits = EmptyBag
  /\ rdisturbed = FALSE
  /\ cres = BlankResult
  /\ helper = BlankHelper
  /\ http = {}
  /\ batch = BlankBatch

\* The clock advances by a millisecond
RaceSteps == {1}

TickRace ==
  /\ ticks < MaxRaceTicks
  /\ \E d \in RaceSteps : clock' = clock + d
  /\ ticks' = ticks + 1
  /\ UNCHANGED <<usageTable, configTable, pc, call, calls, response,
                 batch, rpc, rcall, resets, admits, rdisturbed, apiVars>>

CallRace(p) == CallOf(p, RaceRequests)

NextRace ==
  \/ TickRace
  \/ \E p \in Procs : CallRace(p)
  \/ \E p \in Procs : ResolveConfig(p)
  \/ \E p \in Procs : DbQuery(p)
  \/ \E p \in Procs : AfterQuery(p)
  \/ \E p \in Procs : DbPut(p)

SpecRace == InitRace /\ [][NextRace]_vars

(***************************************************************************)
(* The end of a denial.  Calls for "svc#c1" come one after another under   *)
(* the rule of one request per second, and the clock advances by a whole   *)
(* window or by a millisecond more.  The service runs either at Epoch or   *)
(* from the last instant before PowerOfTen on, so that a record may be     *)
(* one digit shorter than a later window start.                            *)
(***************************************************************************)
ExpiryClocks == {Epoch, PowerOfTen - 1}
ExpirySteps == {1000, 1001}

InitExpiry ==
  /\ clock \in ExpiryClocks
  /\ ticks = 0
  /\ usageTable = {}
  /\ configTable \in RetryConfigTables
  /\ pc = [p \in Procs |-> "idle"]
  /\ call = [p \in Procs |-> BlankCall]
  /\ calls = 0
  /\ response = BlankCall
  /\ rpc = "idle"
  /\ rcall = BlankReset
  /\ resets = 0
  /\ admits = EmptyBag
  /\ rdisturbed = FALSE
  /\ cres = BlankResult
  /\ helper = BlankHelper
  /\ http = {}
  /\ batch = BlankBatch

TickExpiry ==
  /\ ticks < MaxTicks
  /\ \E d \in ExpirySteps : clock' = clock + d
  /\ ticks' = ticks + 1
  /\ UNCHANGED <<usageTable, configTable, pc, call, calls, response,
                 batch, rpc, rcall, resets, admits, rdisturbed, apiVars>>

CallExpiry(p) ==
  /\ \A q \in Procs : ~InFlight(q)
  /\ CallOf(p, RaceRequests)

NextExpiry ==
  \/ TickExpiry
  \/ \E p \in Procs : CallExpiry(p)
  \/ \E p \in Procs : ResolveConfig(p)
  \/ \E p \in Procs : DbQuery(p)
  \/ \E p \in Procs : AfterQuery(p)
  \/ \E p \in Procs : DbPut(p)

SpecExpiry == InitExpiry /\ [][NextExpiry]_vars

(***************************************************************************)
(* Retention.  The usage table has TimeToLiveSpecification on `ttl`: the   *)
(* store may delete an item once the current time in seconds has passed    *)
(* its ttl.  Rules with windows of a day and more are saved, the clock     *)
(* advances by a day and more, evaluations are sequential.                 *)
(***************************************************************************)
DayMs == 24 * 60 * 60 * 1000
RetentionSteps == {DayMs, DayMs + MsPerSecond}
RetentionRules ==
  { JsRulesObject(<<"default">>, [t \in {"default"} |-> Rule(w, 2)]) :
      w \in {DayMs, 2 * DayMs} }

\* The item has expired at instant now
TtlExpired(item, now) == item.ttl < FloorDiv(now, MsPerSecond)

TickDays ==
  /\ ticks < MaxTicks
  /\ \E d \in RetentionSteps : clock' = clock + d
  /\ ticks' = ticks + 1
  /\ UNCHANGED <<usageTable, configTable, pc, call, calls, response, batch,
                 rpc, rcall, resets, admits, rdisturbed, apiVars>>

\* The store deletes an expired item
TtlExpire ==
  /\ \E item \in usageTable :
       /\ TtlExpired(item, clock)
       /\ usageTable' = usageTable \ {item}
  /\ UNCHANGED <<clock, ticks, configTable, pc, call, calls, response, batch,
                 rpc, rcall, resets, admits, rdisturbed, apiVars>>

SaveRetentionRule ==
  /\ \E rules \in RetentionRules, storeFails \in BOOLEAN :
       SaveOutcome("saveServiceConfig",
                   [serviceId |-> JsString("svc"), rules |-> rules],
                   storeFails)
  /\ configUnchanged

NextRetention ==
  \/ TickDays
  \/ TtlExpire
  \/ SaveRetentionRule
  \/ \E p \in Procs : CallSeq(p)
  \/ \E p \in Procs : ResolveConfig(p)
  \/ \E p \in Procs : DbQuery(p)
  \/ \E p \in Procs : AfterQuery(p)
  \/ \E p \in Procs : DbPut(p)

SpecRetention == Init /\ [][NextRetention]_vars

(***************************************************************************)
(* Config writes next to the reads of the rule: the config of "svc" is     *)
(* saved, updated and deleted while sequential evaluations, getUsageStats, *)
(* getRateLimit and preloadConfigurations run.                             *)
(***************************************************************************)
FreshRules ==
  { JsRulesObject(<<"default">>, [t \in {"default"} |-> Rule(500, 1)]),
    JsRulesObject(<<"default">>, [t \in {"default"} |-> Rule(1000, 3)]) }

SaveFresh ==
  /\ \E op \in {"saveServiceConfig", "updateServiceConfig"},
        rules \in FreshRules, storeFails \in BOOLEAN :
       SaveOutcome(op, [serviceId |-> JsString("svc"), rules |-> rules],
                   storeFails)
  /\ configUnchanged

DeleteFresh ==
  /\ \E storeFails \in BOOLEAN :
       /\ cres' = [BlankResult EXCEPT
                     !.op = "deleteServiceConfig", !.serviceId = "svc",
                     !.error = IF storeFails THEN StoreError ELSE NoError,
                     !.storeFailed = storeFails]
       /\ configTable' = IF storeFails THEN configTable
                         ELSE DeleteConfig(configTable, "svc")
  /\ configUnchanged

ResolveFresh ==
  /\ \E tier \in {"default"} :
       LET rateLimit == getRateLimit(configTable, "svc", tier)
       IN cres' = [BlankResult EXCEPT
                     !.op = "getRateLimit", !.serviceId = "svc",
                     !.tier = tier, !.error = rateLimit.error,
                     !.windowMs = rateLimit.windowMs,
                     !.maxRequests = rateLimit.maxRequests,
                     !.missing = rateLimit.missing]
  /\ UNCHANGED configTable
  /\ configUnchanged

FreshRequests ==
  {[serviceId |-> JsString("svc"), clientId |-> JsString("c1"),
    userTier |-> JsUndefined]}

CallFresh(p) ==
  /\ \A q \in Procs : ~InFlight(q)
  /\ CallOf(p, FreshRequests)

NextFresh ==
  \/ SaveFresh
  \/ DeleteFresh
  \/ ResolveFresh
  \/ \E p \in Procs : CallFresh(p)
  \/ \E p \in Procs : ResolveConfig(p)
  \/ \E p \in Procs : DbQuery(p)
  \/ \E p \in Procs : AfterQuery(p)
  \/ \E p \in Procs : DbPut(p)
  \/ StatsResolve
  \/ StatsQuery
  \/ PreloadConfigurations

SpecFresh == Init /\ [][NextFresh]_vars

(***************************************************************************)
(* A custom tier.  saveServiceConfig has accepted and stored, for "svc",   *)
(* rules with the tiers "default" and "gold"; sequential calls of          *)
(* checkRateLimit then ask for no tier, for "gold" and for "pro".          *)
(***************************************************************************)
CustomRules ==
  JsRulesObject(<<"default", "gold">>,
                [t \in {"default", "gold"} |->
                   IF t = "default" THEN Rule(1000, 2) ELSE Rule(500, 3)])

CustomRequests ==
  {[serviceId |-> JsString("svc"), clientId |-> JsString("c1"),
    userTier |-> t] : t \in {JsUndefined, JsString("gold"), JsString("pro")}}

InitCustom ==
  /\ validateConfig([serviceId |-> JsString("svc"),
                     rules |-> CustomRules]) = NoError
  /\ clock = Epoch
  /\ ticks = 0
  /\ usageTable = {}
  /\ configTable \in {PutConfig(seeded, "svc", CustomRules.props) :
                         seeded \in SeededConfigTables}
  /\ pc = [p \in Procs |-> "idle"]
  /\ call = [p \in Procs |-> BlankCall]
  /\ calls = 0
  /\ response = BlankCall
  /\ rpc = "idle"
  /\ rcall = BlankReset
  /\ resets = 0
  /\ admits = EmptyBag
  /\ rdisturbed = FALSE
  /\ cres = BlankResult
  /\ helper = BlankHelper
  /\ http = {}
  /\ batch = BlankBatch

CallCustom(p) ==
  /\ \A q \in Procs : ~InFlight(q)
  /\ CallOf(p, CustomRequests)

NextCustom ==
  \/ Tick
  \/ \E p \in Procs : CallCustom(p)
  \/ \E p \in Procs : ResolveConfig(p)
  \/ \E p \in Procs : DbQuery(p)
  \/ \E p \in Procs : AfterQuery(p)
  \/ \E p \in Procs : DbPut(p)

SpecCustom == InitCustom /\ [][NextCustom]_vars

(***************************************************************************)
(* POST /check.  The handler takes clientId from the body when it is       *)
(* truthy and from the headers otherwise, takes the tier from the body or  *)
(* "default", and awaits checkRateLimit.  A header is the list of the      *)
(* comma-separated, trimmed parts of its value, empty when it is absent.   *)
(***************************************************************************)
IpHeaders == <<"x-forwarded-for", "x-real-ip">>
ValidIPs == {"1.2.3.4", "9.9.9.9"}

\* isValidIP: the regular expressions, on the addresses in use
isValidIP(ip) == ip \in ValidIPs

\* extractClientIP: the first header, in order of preference, whose first
\* part is a valid address
RECURSIVE ClientIPFrom(_, _)
ClientIPFrom(headers, i) ==
  IF i > Len(IpHeaders) THEN "unknown"
  ELSE LET value == headers[IpHeaders[i]]
       IN IF value # <<>> /\ value[1] # "" /\ isValidIP(value[1])
            THEN value[1]
            ELSE ClientIPFrom(headers, i + 1)

extractClientIP(headers) == ClientIPFrom(headers, 1)

\* extractUserIdFromAuth returns null on every path
extractUserIdFromAuth(headers) == Undefined

extractClientId(headers) ==
  IF extractUserIdFromAuth(headers) # Undefined
    THEN "user:" \o (CHOOSE u \in extractUserIdFromAuth(headers) : TRUE)
    ELSE "ip:" \o extractClientIP(headers)

\* extractUserTier returns "default" on every path
extractUserTier(headers) == "default"

\* const clientId = body.clientId || extractClientId(c), and the tier
RateLimitRequestOf(body, headers) ==
  [serviceId |-> body.serviceId,
   clientId |-> IF Truthy(body.clientId) THEN body.clientId
                ELSE JsString(extractClientId(headers)),
   userTier |-> IF Truthy(body.userTier) THEN body.userTier
                ELSE JsString(extractUserTier(headers))]

CheckBodies ==
  {[serviceId |-> JsString("svc"), clientId |-> c, userTier |-> JsUndefined] :
     c \in {JsUndefined, JsString(""), JsString("c1"), JsString("c2")}}

CheckHeaders ==
  { [h \in {"x-forwarded-for", "x-real-ip", "authorization"} |->
       CASE h = "x-forwarded-for" -> f
         [] h = "x-real-ip" -> r
         [] h = "authorization" -> a] :
      f \in {<<>>, <<"1.2.3.4", "9.9.9.9">>, <<"bogus">>},
      r \in {<<>>, <<"9.9.9.9">>},
      a \in {<<>>, <<"Bearer t">>} }

\* The handler receives a request and starts checkRateLimit; requests are
\* served one after another
PostCheck(p) ==
  /\ \A q \in Procs : ~InFlight(q)
  /\ p = 1
  /\ calls < MaxCalls
  /\ \E body \in CheckBodies, headers \in CheckHeaders :
       LET r == RateLimitRequestOf(body, headers)
           err == validateRequest(r.serviceId, r.clientId, r.userTier)
           request == [BlankCall EXCEPT !.request = r,
                                        !.serviceId = r.serviceId.str,
                                        !.clientId = r.clientId.str,
                                        !.userTier = r.userTier.str]
       IN /\ http' = http \cup
                       {[serviceId |-> body.serviceId, headers |-> headers,
                         bodyClientId |-> body.clientId,
                         clientId |-> r.clientId, accepted |-> err = NoError]}
          /\ IF err # NoError
               THEN ReturnFrom(p, Failed(request, err, "validate"))
               ELSE /\ call' = [call EXCEPT ![p] = request]
                    /\ pc' = [pc EXCEPT ![p] = "config"]
                    /\ UNCHANGED <<response, batch>>
  /\ calls' = calls + 1
  /\ UNCHANGED <<clock, ticks, usageTable, configTable, rpc, rcall, resets,
                 admits, rdisturbed, cres, helper>>

NextCheck ==
  \/ \E p \in Procs : PostCheck(p)
  \/ \E p \in Procs : ResolveConfig(p)
  \/ \E p \in Procs : DbQuery(p)
  \/ \E p \in Procs : AfterQuery(p)
  \/ \E p \in Procs : DbPut(p)

SpecCheck == Init /\ [][NextCheck]_vars

\* POST /check: the handler answers with the response of checkRateLimit,
\* or with status 500 when it throws
postCheck(outcome) ==
  IF outcome.error # NoError
    THEN [status |-> 500, error |-> "Internal server error",
          allowed |-> Undefined]
    ELSE [status |-> 200, error |-> NoError, allowed |-> {outcome.allowed}]

(***************************************************************************)
(* Properties.                                                             *)
(***************************************************************************)
Returned == response.returned /\ response.error = NoError

KeyItems(pk) == {r \in usageTable : r.pk = pk}

\* Number of admitted decisions of the key and rule of decision d whose
\* instant lies in the window that ends at d's instant
AdmitsInWindow(d) ==
  LET inWindow == {e \in BagToSet(admits) :
                     /\ e.pk = d.pk
                     /\ e.windowMs = d.windowMs
                     /\ e.maxRequests = d.maxRequests
                     /\ d.now - d.windowMs <= e.now
                     /\ e.now <= d.now}
  IN BagCardinality([e \in inWindow |-> admits[e]])

\* Number of admitted decisions of a key
AdmitsOfKey(pk) ==
  BagCardinality([e \in {x \in BagToSet(admits) : x.pk = pk} |-> admits[e]])

\* C1: with calls that never overlap, the allowed=true decisions of one key
\* under one rule within any interval of length windowMs number at most
\* maxRequests.
C1_WindowBound ==
  \A d \in BagToSet(admits) : AdmitsInWindow(d) <= d.maxRequests

\* C2: a returned decision is allowed exactly when the number of records
\* the usage query returned is strictly less than maxRequests.
C2_AllowedIffUnderLimit ==
  Returned =>
    (response.allowed <=> Len(response.usageRecords) < response.maxRequests)

\* Denied on an empty log under maxRequests = 0
C2_Witness ==
  /\ Returned /\ response.maxRequests = 0
  /\ Len(response.usageRecords) = 0 /\ ~response.allowed

\* C3: with no reset, the number of stored records of a key equals the
\* number of allowed=true decisions returned for it.
C3_OneRecordPerAdmit ==
  resets = 0 =>
    \A s \in RequestServiceIds, c \in RequestClientIds :
      Cardinality(KeyItems(PartitionKey(s, c))) =
        AdmitsOfKey(PartitionKey(s, c))

\* C4: a call that returned allowed=false performed no put on the usage
\* table.
C4_DeniedAppendsNothing ==
  (Returned /\ ~response.allowed) => response.appended = 0

\* Denied at the limit of a rule with maxRequests > 0, records in the table
C4_Witness ==
  /\ Returned /\ ~response.allowed
  /\ response.maxRequests > 0
  /\ Len(response.usageRecords) >= response.maxRequests
  /\ KeyItems(PartitionKey(response.serviceId, response.clientId)) # {}

\* C5: a call that read currentUsage = maxRequests - 1 is admitted and goes
\* on to append even while another call of the same key, already admitted,
\* has not appended yet: nothing excludes the two from each other.
C5_NoMutualExclusion ==
  [][\A p, q \in Procs :
       ( /\ p # q
         /\ pc[q] = "put"
         /\ CallKey(q) = CallKey(p)
         /\ pc[p] = "queried"
         /\ pc'[p] # "queried"
         /\ Len(call[p].usageRecords) = call[p].maxRequests - 1 )
       => (pc'[p] = "put" /\ call'[p].allowed)]_vars

\* Two admitted decisions of one key each read maxRequests - 1, and more
\* than maxRequests decisions were admitted within one window.
C5_Witness ==
  \E d \in BagToSet(admits) :
    /\ d.currentUsage = d.maxRequests - 1
    /\ BagCardinality([e \in {x \in BagToSet(admits) :
                                /\ x.pk = d.pk
                                /\ x.maxRequests = d.maxRequests
                                /\ x.currentUsage = d.currentUsage}
                         |-> admits[e]]) >= 2
    /\ AdmitsInWindow(d) > d.maxRequests

\* C6: in a returned decision remaining lies in [0, maxRequests] and is
\* max(0, maxRequests - currentUsage - (1 if allowed else 0)).
C6_Remaining ==
  Returned =>
    LET currentUsage == Len(response.usageRecords)
        own == IF response.allowed THEN 1 ELSE 0
        expected == response.maxRequests - currentUsage - own
    IN /\ response.remaining >= 0
       /\ response.remaining <= response.maxRequests
       /\ response.remaining = (IF expected > 0 THEN expected ELSE 0)

\* Usage above maxRequests + 1
C6_Witness ==
  Returned /\ Len(response.usageRecords) > response.maxRequests + 1

\* The least integer k with k * 1000 >= x
CeilSeconds(x) ==
  CHOOSE k \in -3..3 : k * 1000 >= x /\ (k - 1) * 1000 < x

\* C7: a returned decision carries retryAfter exactly when it is denied and
\* the query returned a record; its value is
\* ceil((oldestTimestamp + windowMs - now) / 1000) for the minimum
\* timestamp among the returned records.
C7_RetryAfter ==
  Returned =>
    LET records == response.usageRecords
        stamps == {records[i].timestamp : i \in 1..Len(records)}
        oldest == CHOOSE t \in stamps : \A u \in stamps : t <= u
    IN /\ (response.retryAfter # Undefined)
            <=> (~response.allowed /\ Len(records) >= 1)
       /\ response.retryAfter # Undefined =>
            response.retryAfter =
              {CeilSeconds(oldest + response.windowMs - response.now)}

\* Denied on two records of different age, the wait not a whole second
C7_Witness ==
  /\ Returned /\ ~response.allowed
  /\ Len(response.usageRecords) >= 2
  /\ response.usageRecords[1].timestamp # response.usageRecords[2].timestamp
  /\ response.retryAfter = {1}
  /\ \E i \in 1..Len(response.usageRecords) :
       (response.usageRecords[i].timestamp + response.windowMs - response.now)
         % 1000 # 0

\* C8: whenever a decision carries retryAfter, its value is at least 1.
C8_RetryAfterPositive ==
  Returned => \A v \in response.retryAfter : v >= 1

\* C9: when no record is admitted for the key after an evaluate returned
\* (calls do not overlap and the returned call is the latest one), a usage
\* query made at its resetTime counts no record of the key.
C9_WindowClearAtReset ==
  ( /\ Returned
    /\ \A q \in Procs : ~InFlight(q)
    /\ clock = response.resetTime )
  => Len(getUsageInWindow(usageTable, response.serviceId, response.clientId,
                          clock - response.windowMs)) = 0

\* C10: after reset returned, with no record admitted for the key since the
\* reset began, the key has no stored record.
C10_ResetClears ==
  (rpc = "done" /\ ~rdisturbed) => KeyItems(ResetKey) = {}

SaveOps == {"saveServiceConfig", "updateServiceConfig", "createDefaultConfig"}

\* C11: resolving a service's config returns the persisted config whenever
\* one exists and otherwise the compiled default of the serviceId; a
\* successful save persists the rules it was given, and a persisted config
\* leaves the table only by a delete of its serviceId.
C11_PersistedWins ==
  /\ []( (cres.op = "getServiceConfig" /\ ~cres.storeFailed) =>
           IF cres.serviceId \in DOMAIN configTable
             THEN /\ cres.error = NoError
                  /\ cres.rules = configTable[cres.serviceId]
           ELSE IF cres.serviceId \in DOMAIN DEFAULT_RATE_LIMITS
             THEN /\ cres.error = NoError
                  /\ cres.rules = DEFAULT_RATE_LIMITS[cres.serviceId]
           ELSE TRUE )
  /\ [][ /\ (cres'.op \in SaveOps /\ cres'.error = NoError) =>
              /\ cres'.serviceId \in DOMAIN configTable'
              /\ configTable'[cres'.serviceId] = cres'.rules
         /\ \A s \in DOMAIN configTable :
              s \notin DOMAIN configTable' =>
                (cres'.op = "deleteServiceConfig" /\ cres'.serviceId = s)
       ]_vars

\* A persisted config of a service that has a compiled default is resolved
C11_Witness ==
  /\ cres.op = "getServiceConfig" /\ ~cres.storeFailed
  /\ cres.serviceId = "api-general"
  /\ cres.serviceId \in DOMAIN configTable
  /\ cres.rules # DEFAULT_RATE_LIMITS["api-general"]

\* C12: for every service whose resolved config has a "default" rule,
\* getRateLimit succeeds for every tier name, labels the result with the
\* requested tier, and for a tier absent from the config returns the default
\* rule's windowMs and maxRequests.
C12_TierFallbackTotal ==
  (cres.op = "getRateLimit" /\ ~cres.storeFailed) =>
    LET config == getServiceConfig(configTable, cres.serviceId)
    IN (config.error = NoError /\ "default" \in DOMAIN config.rules) =>
         /\ cres.error = NoError
         /\ cres.tier \in ResolveTiers
         /\ cres.tier \notin DOMAIN config.rules =>
              /\ cres.missing = {}
              /\ cres.windowMs = config.rules["default"].windowMs
              /\ cres.maxRequests = config.rules["default"].maxRequests

\* The constraints of a configuration, in the order they are checked
ViolatesServiceId(config) ==
  config.serviceId.type # "string" \/ config.serviceId.str = ""
ViolatesRules(config) == config.rules.type # "object"
ViolatesDefault(config) == "default" \notin DOMAIN config.rules.props
RuleViolations(config) ==
  {"windowMs for tier '" \o t \o "' must be a positive number" :
     t \in {u \in DOMAIN config.rules.props :
              config.rules.props[u].windowMs <= 0}}
  \cup
  {"maxRequests for tier '" \o t \o "' must be a positive number" :
     t \in {u \in DOMAIN config.rules.props :
              /\ config.rules.props[u].windowMs > 0
              /\ config.rules.props[u].maxRequests <= 0}}

\* C13: a save or update of a config that violates a structural constraint
\* fails with the error of the first violated constraint (serviceId, rules,
\* "default" entry, rule values) and leaves the config table as it was.
C13_InvalidSaveRejected ==
  [][ LET config == cres'.config
      IN ( /\ cres'.op \in {"saveServiceConfig", "updateServiceConfig"}
           /\ \/ ViolatesServiceId(config)
              \/ ViolatesRules(config)
              \/ ViolatesDefault(config)
              \/ RuleViolations(config) # {} )
         => /\ configTable' = configTable
            /\ IF ViolatesServiceId(config)
                 THEN cres'.error =
                        "Service ID is required and must be a string"
               ELSE IF ViolatesRules(config)
                 THEN cres'.error =
                        "Rules are required and must be an object"
               ELSE IF ViolatesDefault(config)
                 THEN cres'.error = "Default tier configuration is required"
               ELSE cres'.error \in RuleViolations(config)
    ]_vars

\* A save for a persisted service was rejected for a tier after "default"
C13_Witness ==
  /\ cres.op = "saveServiceConfig"
  /\ cres.serviceId = "svc"
  /\ cres.error = "maxRequests for tier 'pro' must be a positive number"
  /\ "svc" \in DOMAIN configTable
  /\ configTable["svc"] # cres.rules

\* C19: hasCustomConfig never throws; it returns true exactly when a
\* persisted config exists for the serviceId (a compiled default does not
\* count), and false when the read of the config table fails.
C19_HasCustom ==
  cres.op = "hasCustomConfig" =>
    /\ cres.error = NoError
    /\ cres.storeFailed => ~cres.has
    /\ ~cres.storeFailed =>
         (cres.has <=> cres.serviceId \in DOMAIN configTable)

\* False for a service that has only a compiled default
C19_Witness ==
  /\ cres.op = "hasCustomConfig" /\ ~cres.storeFailed
  /\ cres.serviceId = "api-general"
  /\ cres.serviceId \notin DOMAIN configTable
  /\ ~cres.has

\* C20: getAllServiceConfigs returns exactly one entry per serviceId that is
\* persisted or has a compiled default, carrying the persisted rules where
\* a persisted config exists and the compiled default rules otherwise.
C20_ListAll ==
  (cres.op = "getAllServiceConfigs" /\ ~cres.storeFailed) =>
    cres.configs =
      {[serviceId |-> s,
        rules |-> IF s \in DOMAIN configTable
                    THEN configTable[s] ELSE DEFAULT_RATE_LIMITS[s]] :
         s \in DOMAIN configTable \cup DOMAIN DEFAULT_RATE_LIMITS}

Unconfigured(serviceId) ==
  serviceId \notin DOMAIN configTable \cup DOMAIN DEFAULT_RATE_LIMITS

ConfigNotFound == "No configuration found for service"

\* C14: resolving (getServiceConfig, getRateLimit) or evaluating
\* (checkRateLimit) a service that has neither a persisted config nor a
\* compiled default fails with ConfigNotFound, and the evaluation neither
\* queries nor appends to the usage table.
C14_ConfigNotFound ==
  /\ ( /\ cres.op \in {"getServiceConfig", "getRateLimit"}
       /\ ~cres.storeFailed
       /\ Unconfigured(cres.serviceId) )
     => cres.error = ConfigNotFound
  /\ ( /\ response.returned
       /\ response.failedAt # "validate"
       /\ response.thrown # StoreError
       /\ Unconfigured(response.serviceId) )
     => /\ response.error = ConfigNotFound
        /\ response.queries = 0
        /\ response.appended = 0

\* A request is malformed when serviceId or clientId is empty or not a
\* string, or when its tier is present and not a recognized label
Malformed(request) ==
  \/ request.serviceId.type # "string" \/ request.serviceId.str = ""
  \/ request.clientId.type # "string" \/ request.clientId.str = ""
  \/ /\ request.userTier.type # "undefined"
     /\ ~( /\ request.userTier.type = "string"
           /\ request.userTier.str \in
                {"default", "free", "pro", "enterprise"} )

\* C15: checkRateLimit fails in validation, before it reads the config or
\* the usage table, for every malformed request; every other request
\* passes validation.
C15_ValidationTotal ==
  response.returned =>
    /\ Malformed(response.request) =>
         /\ response.failedAt = "validate"
         /\ response.error # NoError
         /\ response.resolves = 0
         /\ response.queries = 0
         /\ response.appended = 0
    /\ ~Malformed(response.request) => response.failedAt # "validate"

\* As Malformed, a tier counting as present only when it is truthy: the
\* empty string (like 0 or null) is taken as no tier
MalformedTruthyTier(request) ==
  \/ request.serviceId.type # "string" \/ request.serviceId.str = ""
  \/ request.clientId.type # "string" \/ request.clientId.str = ""
  \/ /\ \/ request.userTier.type = "string" /\ request.userTier.str # ""
        \/ request.userTier.type = "number" /\ request.userTier.num # 0
     /\ ~( /\ request.userTier.type = "string"
           /\ request.userTier.str \in
                {"default", "free", "pro", "enterprise"} )

\* C15 (amended): checkRateLimit fails in validation, before it reads the
\* config or the usage table, for every request whose serviceId or clientId
\* is empty or not a string, or whose tier is non-empty and not a recognized
\* label; every other request, one with an empty tier included, passes
\* validation and is evaluated under the "default" tier.
C15_ValidationTruthyTier ==
  response.returned =>
    /\ MalformedTruthyTier(response.request) =>
         /\ response.failedAt = "validate"
         /\ response.error # NoError
         /\ response.resolves = 0
         /\ response.queries = 0
         /\ response.appended = 0
    /\ ~MalformedTruthyTier(response.request) =>
         /\ response.failedAt # "validate"
         /\ response.resolves = 1

\* An unrecognized tier was rejected in validation
C15_Witness ==
  /\ response.returned
  /\ response.request.serviceId = JsString("svc")
  /\ response.request.clientId = JsString("c1")
  /\ response.request.userTier = JsString("gold")
  /\ response.error = "Invalid user tier specified"
  /\ response.resolves = 0

\* C16: a failure of getRateLimit, getUsageInWindow or recordUsage makes
\* checkRateLimit fail with that same error, each collaborator having been
\* called at most once; nothing is appended when the resolution or the
\* query fails, and allowed=true is returned only after the put succeeded.
C16_FailurePropagates ==
  response.returned =>
    /\ response.thrown # NoError => response.error = response.thrown
    /\ response.resolves <= 1 /\ response.queries <= 1
    /\ response.failedAt \in {"resolve", "query"} => response.appended = 0
    /\ (response.error = NoError /\ response.allowed) =>
         /\ response.appended = 1
         /\ response.failedAt = ""

\* An admitted request whose put was rejected: the call failed
C16_Witness ==
  /\ response.returned
  /\ response.failedAt = "append"
  /\ response.allowed
  /\ response.error = StoreError

\* C17: when the resolution of the config or the usage store fails while
\* checking, POST /check lets the request through: it answers with an
\* allowed outcome, not with an error.
C17_FailOpen ==
  ( /\ response.returned
    /\ response.failedAt \in {"resolve", "query", "append"} )
  => /\ postCheck(response).status = 200
     /\ postCheck(response).allowed = {TRUE}

\* C18: isBlocked, getTimeUntilReset and preloadConfigurations never throw;
\* when the read of the config or of the usage fails, isBlocked returns
\* false and getTimeUntilReset returns 0, and preloadConfigurations
\* completes for every list of serviceIds.
C18_HelpersFailOpen ==
  helper.pc = "done" =>
    /\ helper.error = NoError
    /\ (helper.op = "isBlocked" /\ helper.thrown # NoError) =>
         ~helper.blocked
    /\ (helper.op = "getTimeUntilReset" /\ helper.thrown # NoError) =>
         helper.time = 0

\* isBlocked on a rule that blocks every request, the usage query failing
C18_Witness ==
  /\ helper.pc = "done"
  /\ helper.op = "isBlocked"
  /\ helper.thrown = StoreError
  /\ helper.windowMs > 0
  /\ helper.maxRequests = 0 /\ helper.tier = "free"
  /\ ~helper.blocked

\* C21: a successful createDefaultConfig(serviceId) returns and persists a
\* config with exactly the tiers default, pro and enterprise, each with
\* windowMs 3600000 and with maxRequests 10, 50 and 200, in place of whatever
\* was persisted for the serviceId, so that resolving the serviceId right
\* after it yields those rules.
C21_CreateDefault ==
  (cres.op = "createDefaultConfig" /\ cres.error = NoError) =>
    LET resolved == getServiceConfig(configTable, cres.serviceId)
        ThreeTiers(rules) ==
          /\ DOMAIN rules = {"default", "pro", "enterprise"}
          /\ rules["default"] = [windowMs |-> 3600000, maxRequests |-> 10]
          /\ rules["pro"] = [windowMs |-> 3600000, maxRequests |-> 50]
          /\ rules["enterprise"] = [windowMs |-> 3600000, maxRequests |-> 200]
    IN /\ ThreeTiers(cres.rules)
       /\ cres.serviceId \in DOMAIN configTable
       /\ ThreeTiers(configTable[cres.serviceId])
       /\ resolved.error = NoError
       /\ ThreeTiers(resolved.rules)

\* createDefaultConfig has replaced the config persisted for "svc"
C21_Witness ==
  /\ cres.op = "createDefaultConfig" /\ cres.error = NoError
  /\ cres.serviceId = "svc"
  /\ \A seeded \in SeededConfigTables : configTable["svc"] # seeded["svc"]
  /\ DOMAIN configTable["svc"] = {"default", "pro", "enterprise"}

\* C22: getUsageStats, isBlocked and getTimeUntilReset consume no quota: a
\* step of theirs changes neither the usage table nor the config table, the
\* clock or any evaluation in flight or returned, so an evaluation made after
\* any number of them is decided as without them; and getUsageStats reports
\* as currentUsage the number of records of the key inside the window at
\* the query and as remaining max(0, maxRequests - currentUsage).
C22_StatsConsumeNothing ==
  [][ helper' # helper =>
        /\ UNCHANGED <<usageTable, configTable, clock, ticks, pc, call, calls,
                       response, batch, admits>>
        /\ (helper'.op = "getUsageStats" /\ helper.pc = "stats"
              /\ helper'.error = NoError) =>
             LET inWindow ==
                   {r \in usageTable :
                      /\ r.pk = PartitionKey(helper.serviceId, helper.clientId)
                      /\ r.timestamp >= helper.now - helper.windowMs}
                 left == helper.maxRequests - Cardinality(inWindow)
             IN /\ helper'.pc = "done"
                /\ helper'.currentUsage = Cardinality(inWindow)
                /\ helper'.remaining = IF left > 0 THEN left ELSE 0
    ]_vars

\* Statistics of a key that has more records in the window than its tier
\* admits
C22_Witness ==
  /\ helper.pc = "done" /\ helper.op = "getUsageStats"
  /\ helper.error = NoError
  /\ helper.currentUsage > helper.maxRequests
  /\ helper.currentUsage = Cardinality(KeyItems(PartitionKey("svc", "c1")))
  /\ helper.remaining = 0

\* C23: when every evaluation of a checkMultipleRateLimits call has
\* succeeded, the call returns one decision per request, the decision at
\* index i being the one returned for the request at index i, in whatever
\* order the evaluations completed.
C23_BatchInOrder ==
  batch.status = "fulfilled" =>
    /\ Len(batch.values) = Len(batch.requests)
    /\ Len(batch.order) = Len(batch.requests)
    /\ \A i \in 1..Len(batch.requests) :
         /\ batch.values[i] = batch.outcomes[i]
         /\ batch.values[i].returned
         /\ batch.values[i].error = NoError
         /\ batch.values[i].request = batch.requests[i]

\* Two different requests, the second one completing first
C23_Witness ==
  /\ batch.status = "fulfilled"
  /\ batch.order = <<2, 1>>
  /\ batch.requests[1] # batch.requests[2]
  /\ batch.values[1].allowed /\ ~batch.values[2].allowed

\* C24: a checkMultipleRateLimits call rejects exactly when one of its
\* entries has failed, with the error of the entry that failed first in
\* time; it returns a list only when every entry has succeeded, so never a
\* partial one, and once every entry has settled it has returned or thrown.
C24_BatchRejects ==
  batch.status # "none" =>
    /\ (batch.status = "rejected") <=> (batch.failures # <<>>)
    /\ batch.status = "rejected" =>
         /\ batch.error # NoError
         /\ batch.error = batch.outcomes[Head(batch.failures)].error
    /\ batch.status = "fulfilled" =>
         \A i \in 1..Len(batch.requests) :
           batch.outcomes[i].returned /\ batch.outcomes[i].error = NoError
    /\ Len(batch.order) = Len(batch.requests) => batch.status # "pending"
    /\ \A i \in 1..Len(batch.failures) :
         batch.outcomes[batch.failures[i]].error # NoError

\* Two entries have failed with different errors, the second entry first
C24_Witness ==
  /\ batch.status = "rejected"
  /\ batch.failures = <<2, 1>>
  /\ batch.outcomes[1].error # batch.outcomes[2].error
  /\ batch.outcomes[1].failedAt = "resolve"
  /\ batch.outcomes[2].failedAt = "resolve"
  /\ batch.error = batch.outcomes[2].error

\* C25: while no config is persisted for "upload-images", resolving it
\* yields the compiled defaults default {7200000, 2}, pro {3600000, 5} and
\* enterprise {1800000, 10}.
C25_UploadImagesDefaults ==
  ( /\ cres.op = "getServiceConfig" /\ ~cres.storeFailed
    /\ cres.serviceId = "upload-images"
    /\ "upload-images" \notin DOMAIN configTable )
  => /\ cres.error = NoError
     /\ DOMAIN cres.rules = {"default", "pro", "enterprise"}
     /\ cres.rules["default"] = [windowMs |-> 7200000, maxRequests |-> 2]
     /\ cres.rules["pro"] = [windowMs |-> 3600000, maxRequests |-> 5]
     /\ cres.rules["enterprise"] = [windowMs |-> 1800000, maxRequests |-> 10]

\* The records of key pk stamped at or after windowStart
InWindow(pk, windowStart) ==
  {r \in usageTable : r.pk = pk /\ r.timestamp >= windowStart}

\* C26: the usage query of checkRateLimit and of getUsageStats, made with
\* `now` and the rule's windowMs, counts exactly the stored records of the
\* key whose timestamp t satisfies t >= now - windowMs, whatever the
\* magnitude of the timestamps.
C26_InclusiveWindowCount ==
  [][ /\ \A p \in Procs :
           (pc[p] = "query" /\ pc'[p] = "queried") =>
             Len(call'[p].usageRecords) =
               Cardinality(InWindow(CallKey(p),
                                    call[p].now - call[p].windowMs))
      /\ (helper.pc = "stats" /\ helper'.pc = "done"
            /\ helper'.error = NoError) =>
           helper'.currentUsage =
             Cardinality(InWindow(PartitionKey(helper.serviceId,
                                               helper.clientId),
                                  helper.now - helper.windowMs))
    ]_vars

\* C27: a returned decision depends only on the records of the key stamped
\* in [now - windowMs, now): on the table without the records stamped at
\* `now` or later, the query would have been answered with the records
\* stamped before `now` only, and allowed and remaining would be the same.
C27_DecisionIgnoresFuture ==
  Returned =>
    LET records == response.usageRecords
        past == Cardinality({i \in 1..Len(records) :
                               records[i].timestamp < response.now})
        allowed == past < response.maxRequests
        left == response.maxRequests - past - (IF allowed THEN 1 ELSE 0)
    IN /\ response.allowed = allowed
       /\ response.remaining = (IF left > 0 THEN left ELSE 0)

\* C28: the record put for an admitted call is stamped with the `now` the
\* call computed its window start and resetTime from.
C28_RecordStampedNow ==
  (Returned /\ response.allowed /\ response.appended = 1) =>
    /\ response.recordedAt = response.now
    /\ response.resetTime = response.recordedAt + response.windowMs

\* C29: the retention of a usage record covers every window a saved rule
\* can have: no stored record has expired while its timestamp is still
\* inside the window, at the current instant, of a rule persisted for its
\* service.
C29_RetentionCoversWindow ==
  \A item \in usageTable, s \in DOMAIN configTable,
     c \in RequestClientIds :
    \A tier \in DOMAIN configTable[s] :
      (item.pk = PartitionKey(s, c) /\ TtlExpired(item, clock)) =>
        item.timestamp < clock - configTable[s][tier].windowMs

\* The rule stored for (serviceId, tier): the tier's own rule, else the
\* default tier's
StoredRule(serviceId, tier) ==
  LET rules == configTable[serviceId]
  IN IF tier \in DOMAIN rules THEN rules[tier] ELSE rules["default"]

\* The rule in `locals` is the one stored for (serviceId, tier)
UsesStoredRule(locals, serviceId, tier) ==
  /\ serviceId \in DOMAIN configTable
  /\ locals.windowMs = StoredRule(serviceId, tier).windowMs
  /\ locals.maxRequests = StoredRule(serviceId, tier).maxRequests

\* C30: no rule is kept between calls: every checkRateLimit, getUsageStats
\* and getRateLimit reads the rule stored at that moment, so after a
\* completed save, update or delete it uses the new rule (or finds no
\* config), and preloadConfigurations changes nothing a later call reads.
C30_NoStaleRule ==
  /\ []( (cres.op = "getRateLimit" /\ cres.serviceId = "svc"
           /\ ~cres.storeFailed) =>
            IF "svc" \in DOMAIN configTable
              THEN /\ cres.error = NoError
                   /\ UsesStoredRule(cres, "svc", cres.tier)
              ELSE cres.error = ConfigNotFound )
  /\ [][ /\ \A p \in Procs :
              pc[p] = "config" =>
                /\ pc'[p] = "query" =>
                     UsesStoredRule(call'[p], call[p].serviceId,
                                    TierOf(call[p].request.userTier))
                /\ pc'[p] = "idle" =>
                     /\ call[p].serviceId \notin DOMAIN configTable
                     /\ response'.error = ConfigNotFound
         /\ (helper.pc = "idle" /\ helper'.pc = "stats") =>
              UsesStoredRule(helper', helper'.serviceId, helper'.tier)
         /\ (helper' # helper /\ helper'.op = "preload") =>
              UNCHANGED <<configTable, usageTable, clock, pc, call,
                          response, cres>>
       ]_vars

\* After preloadConfigurations and a save of {default: {1000, 3}}, a call
\* has been decided under the saved rule
C30_Witness ==
  /\ helper.pc = "done" /\ helper.op = "preload"
  /\ helper.serviceIds = <<"svc">>
  /\ "svc" \in DOMAIN configTable
  /\ configTable["svc"]["default"] = [windowMs |-> 1000, maxRequests |-> 3]
  /\ Returned /\ response.allowed
  /\ response.windowMs = 1000 /\ response.maxRequests = 3
  /\ Len(response.usageRecords) = 1 /\ response.remaining = 1

\* C31: the clientId under which POST /check counts a request comes from
\* the headers alone: two requests with the same serviceId and the same
\* headers are counted under the same clientId, whatever clientId their
\* bodies carry.
C31_ClientIdFromHeaders ==
  \A a \in http, b \in http :
    (a.accepted /\ b.accepted /\ a.serviceId = b.serviceId
       /\ a.headers = b.headers)
    => a.clientId = b.clientId

\* C32: every decision returned by checkRateLimit and every getUsageStats
\* result has resetTime = now + windowMs, `now` being the instant the call
\* computed its window from and windowMs the one of the resolved rule,
\* whatever records are stored and whether the request was allowed.
C32_ResetTime ==
  /\ Returned => response.resetTime = response.now + response.windowMs
  /\ (helper.pc = "done" /\ helper.op = "getUsageStats"
        /\ helper.error = NoError) =>
       helper.resetTime = helper.now + helper.windowMs

\* A denied decision with records in its window, taken after the clock
\* moved, and statistics that count records
C32_Witness ==
  /\ Returned /\ ~response.allowed
  /\ Len(response.usageRecords) >= 1
  /\ response.now > Epoch
  /\ response.resetTime = response.now + 1000
  /\ helper.pc = "done" /\ helper.op = "getUsageStats"
  /\ helper.error = NoError /\ helper.currentUsage >= 1
  /\ helper.resetTime = helper.now + 1000

\* C33: a request denied at instant now with retryAfter = r, under a rule
\* with maxRequests >= 1, is admitted when it is retried at now + r * 1000
\* under the same rule, no record of the key having been appended in
\* between (calls do not overlap, and the denied decision is the last one
\* returned when the retry is decided).
C33_RetryAfterSuffices ==
  [][ \A p \in Procs :
        ( /\ pc[p] = "queried" /\ pc'[p] # "queried"
          /\ Returned /\ ~response.allowed
          /\ response.maxRequests >= 1
          /\ CallKey(p) = PartitionKey(response.serviceId, response.clientId)
          /\ call[p].windowMs = response.windowMs
          /\ call[p].maxRequests = response.maxRequests
          /\ \E r \in response.retryAfter :
               call[p].now = response.now + r * MsPerSecond )
        => pc'[p] = "put"
    ]_vars

\* Number of admitted decisions of the pair (serviceId, clientId)
AdmitsOfPair(serviceId, clientId) ==
  BagCardinality([e \in {x \in BagToSet(admits) :
                           x.serviceId = serviceId /\ x.clientId = clientId}
                    |-> admits[e]])

\* C34: the usage logs of distinct (serviceId, clientId) pairs are
\* disjoint, also for ids that hold '#': the usage query of a call for a
\* pair returns records of that pair only, so never more records than the
\* admitted calls of the pair have appended.
C34_PairsDisjoint ==
  [][ \A p \in Procs :
        (pc[p] = "query" /\ pc'[p] = "queried") =>
          Len(call'[p].usageRecords)
            <= AdmitsOfPair(call[p].serviceId, call[p].clientId)
    ]_vars

\* C35: usage is keyed by (serviceId, clientId) and not by tier: the usage
\* query of a call returns every stored record of the key whose timestamp
\* lies in the call's window, under whichever tier it was admitted, and the
\* decision compares their number with the limit of the call's own tier.
C35_UsageNotByTier ==
  [][ \A p \in Procs :
        /\ (pc[p] = "query" /\ pc'[p] = "queried") =>
             \A r \in KeyItems(CallKey(p)) :
               r.timestamp >= call[p].now - call[p].windowMs =>
                 \E i \in 1..Len(call'[p].usageRecords) :
                   call'[p].usageRecords[i] = r
        /\ (pc[p] = "queried" /\ pc'[p] # "queried") =>
             (pc'[p] = "put") =
               (Len(call[p].usageRecords) < call[p].maxRequests)
    ]_vars

\* A call under "pro" (two per second) is denied by two records that were
\* both admitted under "default"
C35_Witness ==
  /\ Returned
  /\ response.userTier = "pro"
  /\ response.maxRequests = 2
  /\ ~response.allowed
  /\ Len(response.usageRecords) = 2
  /\ BagCardinality(admits) = 2
  /\ \A e \in BagToSet(admits) : e.maxRequests = 3

\* The decision checkRateLimit takes for (serviceId, clientId, tier) at
\* instant now on the present tables
WouldAllow(serviceId, clientId, tier, now) ==
  LET rateLimit == getRateLimit(configTable, serviceId,
                                TierOf(JsString(tier)))
      usageRecords == getUsageInWindow(usageTable, serviceId, clientId,
                                       now - rateLimit.windowMs)
  IN IsAllowed(Len(usageRecords), rateLimit.maxRequests)

\* C36: on one state of the store, at one instant and for one tier, and
\* when nothing fails, isBlocked returns true exactly when checkRateLimit
\* for the same serviceId, clientId and tier would answer allowed = false.
C36_BlockedIffDenied ==
  [][ ( /\ helper.op = "isBlocked"
        /\ helper.pc = "query" /\ helper'.pc = "done"
        /\ helper'.thrown = NoError
        /\ validateRequest(JsString(helper.serviceId),
                           JsString(helper.clientId),
                           JsString(helper.tier)) = NoError )
      => helper'.blocked =
           ~WouldAllow(helper.serviceId, helper.clientId, helper.tier,
                       helper.now)
    ]_vars

\* isBlocked answers true under "default" because two records fill the
\* window of a rule that admits two
C36_Witness ==
  /\ helper.pc = "done"
  /\ helper.op = "isBlocked"
  /\ helper.thrown = NoError
  /\ helper.tier = "default"
  /\ helper.maxRequests = 2
  /\ helper.blocked
  /\ Cardinality(InWindow(PartitionKey(helper.serviceId, helper.clientId),
                          helper.now - helper.windowMs)) = 2

\* The rule and the key of the race
RaceRule == configTable["svc"]["default"]
RaceKey == PartitionKey("svc", "c1")

\* Stored records of the key stamped within the last windowMs
RecordsInLastWindow == InWindow(RaceKey, clock - RaceRule.windowMs)

\* The window start of every instant at which a record of the key was
\* stamped has as many decimal digits as the record's sort key
DigitsAgree ==
  \A r \in KeyItems(RaceKey) :
    Len(toString(r.timestamp - RaceRule.windowMs)) = Len(r.sk)

DecidesAfterWindow(p) ==
  /\ pc[p] = "queried" /\ pc'[p] # "queried"
  /\ call[p].maxRequests >= 1
  /\ \A r \in KeyItems(CallKey(p)) :
       call[p].now > r.timestamp + call[p].windowMs

BatchSettled == Len(batch.order) = Len(batch.requests)

\* The record of the admitted outcome o is stored
RecordStored(o) ==
  \E r \in KeyItems(PartitionKey(o.serviceId, o.clientId)) :
    r.timestamp = o.recordedAt

\* C39: after a checkMultipleRateLimits call has rejected, its other
\* entries are neither cancelled nor rolled back: every entry settles, no
\* stored record is removed, and every entry that was admitted has its
\* record in the usage table although the call returned no decision.
C39_BatchNotRolledBack ==
  /\ [](batch.status = "rejected" =>
          \A i \in 1..Len(batch.requests) :
            ( /\ batch.outcomes[i].returned
              /\ batch.outcomes[i].error = NoError
              /\ batch.outcomes[i].allowed )
            => RecordStored(batch.outcomes[i]))
  /\ [][batch.status = "rejected" => usageTable \subseteq usageTable']_vars
  /\ (batch.status = "rejected") ~> BatchSettled

\* The second entry failed first; the first entry then ran on, was
\* admitted and recorded
C39_Witness ==
  /\ batch.status = "rejected"
  /\ BatchSettled
  /\ batch.order = <<2, 1>>
  /\ batch.failures = <<2>>
  /\ batch.outcomes[1].allowed
  /\ batch.outcomes[1].appended = 1
  /\ RecordStored(batch.outcomes[1])
  /\ batch.error = batch.outcomes[2].error

\* C40: a request with well-formed ids is evaluated under the rule of its
\* tier when the persisted rules of the service hold that tier, a custom
\* tier such as "gold" included, and under the "default" rule otherwise:
\* the call is not rejected for its tier, and the rule it applies is the
\* one of the tier or of "default".
C40_TierSelectable ==
  [][ /\ calls' = calls + 1 =>
           \E p \in Procs : pc[p] = "idle" /\ pc'[p] = "config"
      /\ \A p \in Procs :
           pc[p] = "config" /\ pc'[p] # "config" =>
             LET tier == TierOf(call[p].request.userTier)
                 rules == configTable[call[p].serviceId]
                 rule == IF tier \in DOMAIN rules THEN rules[tier]
                                                  ELSE rules["default"]
             IN /\ pc'[p] = "query"
                /\ call'[p].windowMs = rule.windowMs
                /\ call'[p].maxRequests = rule.maxRequests
    ]_vars

====
